---- MODULE Spec2Model ----
(***************************************************************************)
(* ctxsnap: discovery of candidate files, the per-candidate budget gate    *)
(* and content extractor, and the snapshot assembler.                      *)
(*                                                                         *)
(* A byte buffer and a decoded text are run-length encoded: a sequence of  *)
(* runs [c |-> value, n |-> count], n > 0, so that buffers of a mebibyte   *)
(* keep their real length.  Bytes and code points are integers.  File and  *)
(* directory names are sequences of one-character strings.                 *)
(***************************************************************************)
EXTENDS Integers, Sequences, FiniteSets, TLC

VARIABLES
    cfg,                \* the resolved AppConfig (immutable during a run)
    args,               \* Args: dry_run, force, root (its last component)
    pc,                 \* position of main
    todo,               \* discovery.files not yet consumed by the loop
    errors,             \* discovery.errors
    used,               \* main: running total of included bytes
    disk,               \* on-disk state of the candidate being processed
    stat_size,          \* process_file: metadata.len() seen by the extractor
    included_paths,     \* SnapshotWriter fields
    omitted,
    total_bytes,
    total_lines,
    stats_by_extension,
    top_offenders,
    body_writer,
    doc,                \* what finalize rendered and returned
    dest,               \* the file at the output path
    included_sum,       \* history: sum of size over the Included results
    n_results,          \* history: results handed to process_status
    candidates,         \* history: discovery.files as the loop received it
    tree,               \* the directory tree under the root
    prev_files,         \* history: discovery.files of the previous run
    twin                \* a second run on the same tree, for comparison

vars == <<cfg, args, pc, todo, errors, used, disk, stat_size, included_paths,
          omitted, total_bytes, total_lines, stats_by_extension, top_offenders,
          body_writer, doc, dest, included_sum, n_results, candidates, tree,
          prev_files, twin>>

(***************************************************************************)
(* Bounds of the model.                                                    *)
(***************************************************************************)
\* Longest candidate list handed to the loop.
MaxFiles == 2
\* u64 is modelled with this many bits (TLC's integers have 32).
WordBits == 29

(***************************************************************************)
(* Program constants.                                                      *)
(***************************************************************************)
MiB == 1048576
SAMPLE_SIZE == 8192
TOP_N == 5
MIN_FENCE == 3

U64_MAX == 2^WordBits - 1

Min(a, b) == IF a < b THEN a ELSE b
Max(a, b) == IF a > b THEN a ELSE b

saturating_add(a, b) == IF a > U64_MAX - b THEN U64_MAX ELSE a + b
saturating_mul(a, b) == IF a * b > U64_MAX THEN U64_MAX ELSE a * b

(***************************************************************************)
(* Run-length encoded buffers and texts.                                   *)
(***************************************************************************)
Run(c, n) == [c |-> c, n |-> n]

\* Number of units (bytes or characters) of t.
RECURSIVE Size(_)
Size(t) == IF t = <<>> THEN 0 ELSE Head(t).n + Size(Tail(t))

\* The first k units of t (File::take(k).read_to_end, &buf[..k]).
RECURSIVE Take(_, _)
Take(t, k) ==
    IF t = <<>> \/ k <= 0 THEN <<>>
    ELSE IF Head(t).n <= k THEN <<Head(t)>> \o Take(Tail(t), k - Head(t).n)
    ELSE <<Run(Head(t).c, k)>>

Contains(t, c) == \E i \in DOMAIN t : t[i].c = c

\* t without its first k units.
RECURSIVE Drop(_, _)
Drop(t, k) ==
    IF t = <<>> \/ k <= 0 THEN t
    ELSE IF Head(t).n <= k THEN Drop(Tail(t), k - Head(t).n)
    ELSE <<Run(Head(t).c, Head(t).n - k)>> \o Tail(t)

\* The i-th unit of t (1-based), -1 past the end.
RECURSIVE At(_, _)
At(t, i) ==
    IF t = <<>> THEN -1
    ELSE IF i <= Head(t).n THEN Head(t).c
    ELSE At(Tail(t), i - Head(t).n)

EndsWith(t, c) == t # <<>> /\ t[Len(t)].c = c

(***************************************************************************)
(* Character classes.                                                      *)
(***************************************************************************)
NUL == 0
TAB == 9
LF == 10
CR == 13
ESC == 27
DEL == 127
BACKTICK == 96

\* char::is_control: the Unicode category Cc.
is_control(ch) == ch < 32 \/ (ch >= 127 /\ ch <= 159)

\* The control characters counted by both density checks.
counted_control(ch) == is_control(ch) /\ ch # LF /\ ch # CR /\ ch # TAB

\* The byte-level heuristic of is_mostly_text for a sample that is not UTF-8.
counted_control_byte(b) ==
    b < 9 \/ (b > 13 /\ b < 32 /\ b # ESC) \/ b = DEL

\* text.chars().filter(counted_control).count()
RECURSIVE control_chars(_)
control_chars(t) ==
    IF t = <<>> THEN 0
    ELSE (IF counted_control(Head(t).c) THEN Head(t).n ELSE 0)
         + control_chars(Tail(t))

\* The loop over the bytes of a sample that is not UTF-8.
RECURSIVE control_bytes(_)
control_bytes(t) ==
    IF t = <<>> THEN 0
    ELSE (IF counted_control_byte(Head(t).c) THEN Head(t).n ELSE 0)
         + control_bytes(Tail(t))

(***************************************************************************)
(* UTF-8 (std::str::from_utf8 and encoding_rs::UTF_8).                     *)
(***************************************************************************)
\* Length of the sequence a lead byte opens, 0 for a byte that opens none.
utf8_width(b) ==
    IF b < 128 THEN 1
    ELSE IF b >= 194 /\ b <= 223 THEN 2
    ELSE IF b >= 224 /\ b <= 239 THEN 3
    ELSE IF b >= 240 /\ b <= 244 THEN 4
    ELSE 0

\* The range of the second byte of a sequence, by lead byte.
utf8_second_ok(lead, b) ==
    IF lead = 224 THEN b >= 160 /\ b <= 191
    ELSE IF lead = 237 THEN b >= 128 /\ b <= 159
    ELSE IF lead = 240 THEN b >= 144 /\ b <= 191
    ELSE IF lead = 244 THEN b >= 128 /\ b <= 143
    ELSE b >= 128 /\ b <= 191

utf8_cont(b) == b >= 128 /\ b <= 191

\* Whether a well-formed sequence starts buf.
utf8_seq_ok(buf) ==
    LET w == utf8_width(At(buf, 1)) IN
        /\ w > 0
        /\ Size(buf) >= w
        /\ w >= 2 => utf8_second_ok(At(buf, 1), At(buf, 2))
        /\ w >= 3 => utf8_cont(At(buf, 3))
        /\ w >= 4 => utf8_cont(At(buf, 4))

\* The code point of the well-formed sequence that starts buf.
utf8_scalar(buf) ==
    LET b1 == At(buf, 1)
        w == utf8_width(b1)
        c(i) == At(buf, i) - 128
    IN  IF w = 1 THEN b1
        ELSE IF w = 2 THEN (b1 - 192) * 64 + c(2)
        ELSE IF w = 3 THEN (b1 - 224) * 4096 + c(2) * 64 + c(3)
        ELSE (b1 - 240) * 262144 + c(2) * 4096 + c(3) * 64 + c(4)

\* Decoding: [ok, text]; ok is FALSE when a sequence is malformed, and the
\* text then has U+FFFD in its place.  A run of ASCII bytes is taken whole.
RECURSIVE utf8_decode(_)
utf8_decode(buf) ==
    IF buf = <<>> THEN [ok |-> TRUE, text |-> <<>>]
    ELSE IF Head(buf).c < 128 THEN
        LET r == utf8_decode(Tail(buf))
        IN  [ok |-> r.ok, text |-> <<Head(buf)>> \o r.text]
    ELSE IF ~utf8_seq_ok(buf) THEN
        \* the malformed sequence: the lead byte and the continuation
        \* bytes that could still belong to it
        LET w == utf8_width(At(buf, 1))
            error_len ==
                IF w < 3 \/ Size(buf) < 2
                   \/ ~utf8_second_ok(At(buf, 1), At(buf, 2))
                THEN 1
                ELSE IF w = 3 \/ Size(buf) < 3 \/ ~utf8_cont(At(buf, 3))
                THEN 2
                ELSE 3
            r == utf8_decode(Drop(buf, error_len))
        IN  [ok |-> FALSE, text |-> <<Run(65533, 1)>> \o r.text]
    ELSE
        LET r == utf8_decode(Drop(buf, utf8_width(At(buf, 1))))
        IN  [ok |-> r.ok, text |-> <<Run(utf8_scalar(buf), 1)>> \o r.text]

\* The UTF-8 byte order mark EF BB BF.
has_utf8_bom(buf) == At(buf, 1) = 239 /\ At(buf, 2) = 187 /\ At(buf, 3) = 191

(***************************************************************************)
(* UTF-16, which encoding_rs decodes a buffer with when the buffer starts  *)
(* with FF FE or FE FF.                                                    *)
(***************************************************************************)
\* Decoding: [ok, text]; an odd last byte and an unpaired surrogate are
\* malformed and decode to U+FFFD.  The pairs of equal bytes of a run are
\* taken whole.
RECURSIVE utf16_decode(_, _)
utf16_decode(buf, be) ==
    IF buf = <<>> THEN [ok |-> TRUE, text |-> <<>>]
    ELSE IF Size(buf) = 1 THEN [ok |-> FALSE, text |-> <<Run(65533, 1)>>]
    ELSE
        LET utf16_unit(b) ==
                IF be THEN At(b, 1) * 256 + At(b, 2)
                ELSE At(b, 2) * 256 + At(b, 1)
            is_high_surrogate(x) == x >= 55296 /\ x <= 56319
            is_low_surrogate(x) == x >= 56320 /\ x <= 57343
            u == utf16_unit(buf)
            rest == Drop(buf, 2)
            paired == /\ is_high_surrogate(u)
                      /\ Size(rest) >= 2
                      /\ is_low_surrogate(utf16_unit(rest))
            whole == Max(Head(buf).n \div 2, 1)
        IN  IF paired
            THEN LET r == utf16_decode(Drop(rest, 2), be)
                 IN  [ok |-> r.ok,
                      text |-> <<Run(65536 + (u - 55296) * 1024
                                       + (utf16_unit(rest) - 56320), 1)>>
                               \o r.text]
            ELSE IF is_high_surrogate(u) \/ is_low_surrogate(u)
            THEN LET r == utf16_decode(rest, be)
                 IN  [ok |-> FALSE, text |-> <<Run(65533, 1)>> \o r.text]
            ELSE LET r == utf16_decode(Drop(buf, 2 * whole), be)
                 IN  [ok |-> r.ok, text |-> <<Run(u, whole)>> \o r.text]

(***************************************************************************)
(* windows-1252 (encoding_rs::WINDOWS_1252): 0x80..0x9F by table, every    *)
(* other byte is its own code point.                                       *)
(***************************************************************************)
WINDOWS_1252_HIGH ==
    <<8364, 129, 8218, 402, 8222, 8230, 8224, 8225, 710, 8240, 352, 8249,
      338, 141, 381, 143, 144, 8216, 8217, 8220, 8221, 8226, 8211, 8212,
      732, 8482, 353, 8250, 339, 157, 382, 376>>

windows_1252_char(b) ==
    IF b >= 128 /\ b <= 159 THEN WINDOWS_1252_HIGH[b - 127] ELSE b

RECURSIVE windows_1252_decode(_)
windows_1252_decode(buf) ==
    IF buf = <<>> THEN <<>>
    ELSE <<Run(windows_1252_char(Head(buf).c), Head(buf).n)>>
         \o windows_1252_decode(Tail(buf))

(***************************************************************************)
(* processing.rs                                                           *)
(***************************************************************************)
is_mostly_text(sample) ==
    IF sample = <<>> THEN TRUE
    ELSE IF Contains(sample, NUL) THEN FALSE
    ELSE IF utf8_decode(sample).ok THEN
        LET s == utf8_decode(sample).text
            total == Size(s)
            control_count == control_chars(s)
        IN  \* control_count / total < 0.02
            control_count * 50 < total
    ELSE
        LET control == control_bytes(sample)
        IN  control * 50 < Size(sample)

\* The longest run of backticks, folded over the runs as the loop folds
\* over the characters: acc is <<max_run, run>>.
RECURSIVE fence_scan(_, _)
fence_scan(content, acc) ==
    IF content = <<>> THEN acc[1]
    ELSE IF Head(content).c = BACKTICK THEN
        LET run == acc[2] + Head(content).n
        IN  fence_scan(Tail(content), <<Max(acc[1], run), run>>)
    ELSE fence_scan(Tail(content), <<acc[1], 0>>)

\* A variant of fence_for that is as long as the longest run, not one longer.
fence_for_longest_run(content) ==
    <<Run(BACKTICK, Max(MIN_FENCE, fence_scan(content, <<0, 0>>)))>>

fence_for(content) ==
    LET max_run == fence_scan(content, <<0, 0>>)
        len == Max(MIN_FENCE, max_run + 1)
    IN  <<Run(BACKTICK, len)>>

(***************************************************************************)
(* Names and paths.  A path is relative to the canonical root: a sequence  *)
(* of components, each a sequence of one-character strings.                *)
(***************************************************************************)
\* The characters of the model in code point order.
ASCII ==
    <<"(", ")", "-", ".", "/", "0", "1", "2", "3", "4", "5", "6", "7", "8",
      "9", "?", "A", "B", "C", "D", "E", "F", "G", "H", "I", "J", "K", "L",
      "M", "N", "O", "P", "Q", "R", "S", "T", "U", "V", "W", "X", "Y", "Z",
      "\\", "_", "a", "b", "c", "d", "e", "f", "g", "h", "i", "j", "k", "l",
      "m", "n", "o", "p", "q", "r", "s", "t", "u", "v", "w", "x", "y", "z">>

\* The position of each character in that order.
ORD == [ch \in {ASCII[i] : i \in DOMAIN ASCII} |->
            CHOOSE i \in DOMAIN ASCII : ASCII[i] = ch]

\* str::cmp: lexicographic by code point; a proper prefix is smaller.
RECURSIVE str_lt(_, _)
str_lt(a, b) ==
    IF b = <<>> THEN FALSE
    ELSE IF a = <<>> THEN TRUE
    ELSE IF Head(a) # Head(b) THEN ORD[Head(a)] < ORD[Head(b)]
    ELSE str_lt(Tail(a), Tail(b))

str_le(a, b) == a = b \/ str_lt(a, b)

\* char::to_lowercase of each character of the model.
LOWERCASE == [ch \in DOMAIN ORD |->
                IF ORD[ch] >= ORD["A"] /\ ORD[ch] <= ORD["Z"]
                THEN ASCII[ORD[ch] - ORD["A"] + ORD["a"]]
                ELSE ch]

to_lowercase(s) == [i \in DOMAIN s |-> LOWERCASE[s[i]]]

starts_with(s, prefix) ==
    Len(s) >= Len(prefix) /\ SubSeq(s, 1, Len(prefix)) = prefix

ends_with(s, suffix) ==
    Len(s) >= Len(suffix)
    /\ SubSeq(s, Len(s) - Len(suffix) + 1, Len(s)) = suffix

\* str::replace(from, to) for single characters.
replace_char(s, from, to) == [i \in DOMAIN s |-> IF s[i] = from THEN to ELSE s[i]]

\* Path::to_string_lossy of a relative path: the components joined by '/'.
RECURSIVE to_string_lossy(_)
to_string_lossy(path) ==
    IF path = <<>> THEN <<>>
    ELSE IF Len(path) = 1 THEN Head(path)
    ELSE Head(path) \o <<"/">> \o to_string_lossy(Tail(path))

\* The Windows extended-length prefix \\?\ .
UNC_PREFIX == <<"\\", "\\", "?", "\\">>

RECURSIVE trim_start_matches(_, _)
trim_start_matches(s, prefix) ==
    IF starts_with(s, prefix)
    THEN trim_start_matches(SubSeq(s, Len(prefix) + 1, Len(s)), prefix)
    ELSE s

clean_path(p) ==
    replace_char(trim_start_matches(to_string_lossy(p), UNC_PREFIX), "\\", "/")

\* rel_path.to_string_lossy().replace('\\', "/") of the assembler.
rel_path_str(path) == replace_char(to_string_lossy(path), "\\", "/")

file_name(path) == path[Len(path)]

\* Index of the last '.' of a name, 0 when it has none.
last_dot(name) ==
    IF \E i \in DOMAIN name : name[i] = "."
    THEN CHOOSE i \in DOMAIN name :
            name[i] = "." /\ \A j \in DOMAIN name : name[j] = "." => j <= i
    ELSE 0

\* Path::extension: none without a '.', and none when the only '.' leads.
has_extension(path) == last_dot(file_name(path)) > 1

extension(path) ==
    LET name == file_name(path)
    IN  SubSeq(name, last_dot(name) + 1, Len(name))

extension_or(path, default) ==
    IF has_extension(path) THEN extension(path) ELSE default

NO_EXT == <<"(", "n", "o", "-", "e", "x", "t", ")">>

(***************************************************************************)
(* strip_comments: each style is one regular expression, string literal    *)
(* alternatives first, applied by replace_all from left to right.          *)
(***************************************************************************)
MAX_STRIP_SIZE == 1048576

QUOTE == 34
HASH == 35
APOSTROPHE == 39
STAR == 42
DASH == 45
SLASH == 47
BANG == 33
LESS == 60
GREATER == 62
BACKSLASH == 92

C_EXTS ==
    {<<"r", "s">>, <<"c">>, <<"c", "p", "p">>, <<"h">>, <<"h", "p", "p">>,
     <<"j", "s">>, <<"t", "s">>, <<"j", "a", "v", "a">>, <<"g", "o">>,
     <<"k", "t">>, <<"s", "w", "i", "f", "t">>, <<"c", "s", "s">>,
     <<"c", "s">>, <<"p", "h", "p">>}
HASH_EXTS ==
    {<<"p", "y">>, <<"s", "h">>, <<"r", "b">>, <<"y", "a", "m", "l">>,
     <<"y", "m", "l">>, <<"t", "o", "m", "l">>,
     <<"d", "o", "c", "k", "e", "r", "f", "i", "l", "e">>, <<"p", "l">>,
     <<"p", "s", "1">>}
DASH_EXTS == {<<"s", "q", "l">>, <<"l", "u", "a">>, <<"h", "s">>}
XML_EXTS ==
    {<<"h", "t", "m", "l">>, <<"x", "m", "l">>, <<"v", "u", "e">>,
     <<"s", "v", "e", "l", "t", "e">>}

\* A variant of comment_style that takes every file for a C-like file.
comment_style_c_only(ext) == "C"

comment_style(ext) ==
    LET ext_lower == to_lowercase(ext) IN
        IF ext_lower \in C_EXTS THEN "C"
        ELSE IF ext_lower \in HASH_EXTS THEN "Hash"
        ELSE IF ext_lower \in DASH_EXTS THEN "Dash"
        ELSE IF ext_lower \in XML_EXTS THEN "Xml"
        ELSE "None"

\* The rest of t from the end of its first line: '.*' stops before '\n'.
RECURSIVE skip_line(_)
skip_line(t) ==
    IF t = <<>> THEN <<>>
    ELSE IF Head(t).c = LF THEN t
    ELSE skip_line(Tail(t))

\* (\\.|[^"\\])*" after an opening quote q: [ok, rest after the closing q].
RECURSIVE string_end(_, _)
string_end(t, q) ==
    IF t = <<>> THEN [ok |-> FALSE, rest |-> <<>>]
    ELSE IF Head(t).c = q THEN [ok |-> TRUE, rest |-> Drop(t, 1)]
    ELSE IF Head(t).c = BACKSLASH THEN
        IF At(t, 2) = -1 \/ At(t, 2) = LF THEN [ok |-> FALSE, rest |-> <<>>]
        ELSE string_end(Drop(t, 2), q)
    ELSE string_end(Tail(t), q)

\* [\s\S]*?\*/ after the opening of a block comment.
RECURSIVE block_end(_)
block_end(t) ==
    IF t = <<>> THEN [ok |-> FALSE, rest |-> <<>>]
    ELSE IF Head(t).c = STAR THEN
        IF At(t, 2) = SLASH THEN [ok |-> TRUE, rest |-> Drop(t, 2)]
        ELSE block_end(Drop(t, 1))
    ELSE block_end(Tail(t))

\* .*?--> after the opening of a markup comment.
RECURSIVE xml_end(_)
xml_end(t) ==
    IF t = <<>> THEN [ok |-> FALSE, rest |-> <<>>]
    ELSE IF Head(t).c = DASH THEN
        IF At(t, 2) = DASH /\ At(t, 3) = GREATER
        THEN [ok |-> TRUE, rest |-> Drop(t, 3)]
        ELSE xml_end(Drop(t, 1))
    ELSE xml_end(Tail(t))

\* Whether the line comment token of a style starts t.
line_comment_at(t, style) ==
    \/ style = "C" /\ At(t, 1) = SLASH /\ At(t, 2) = SLASH
    \/ style = "Hash" /\ At(t, 1) = HASH
    \/ style = "Dash" /\ At(t, 1) = DASH /\ At(t, 2) = DASH

\* replace_all of the C, Hash and Dash expressions: at each position the
\* alternatives are tried in order (double quoted, single quoted, block
\* comment for C, line comment); a position where none matches keeps its
\* character.
RECURSIVE strip_quoted(_, _)
strip_quoted(t, style) ==
    IF t = <<>> THEN <<>>
    ELSE LET c == Head(t).c IN
        IF c = QUOTE \/ c = APOSTROPHE THEN
            LET r == string_end(Drop(t, 1), c) IN
                IF r.ok
                THEN Take(t, Size(t) - Size(r.rest)) \o strip_quoted(r.rest, style)
                ELSE <<Run(c, 1)>> \o strip_quoted(Drop(t, 1), style)
        ELSE IF style = "C" /\ c = SLASH /\ At(t, 2) = STAR
                /\ block_end(Drop(t, 2)).ok
        THEN strip_quoted(block_end(Drop(t, 2)).rest, style)
        ELSE IF line_comment_at(t, style)
        THEN strip_quoted(skip_line(t), style)
        ELSE IF c = SLASH \/ c = DASH
        THEN <<Run(c, 1)>> \o strip_quoted(Drop(t, 1), style)
        ELSE <<Head(t)>> \o strip_quoted(Tail(t), style)

\* replace_all of (?s)<!--.*?--> .
RECURSIVE strip_xml(_)
strip_xml(t) ==
    IF t = <<>> THEN <<>>
    ELSE IF Head(t).c = LESS THEN
        IF At(t, 2) = BANG /\ At(t, 3) = DASH /\ At(t, 4) = DASH
           /\ xml_end(Drop(t, 4)).ok
        THEN strip_xml(xml_end(Drop(t, 4)).rest)
        ELSE <<Run(LESS, 1)>> \o strip_xml(Drop(t, 1))
    ELSE <<Head(t)>> \o strip_xml(Tail(t))

strip_comments(content, ext) ==
    LET style == comment_style(ext) IN
        IF style = "None" THEN content
        ELSE IF style = "Xml" THEN strip_xml(content)
        ELSE strip_quoted(content, style)

(***************************************************************************)
(* FileStatus.                                                             *)
(***************************************************************************)
\* A variant of Included whose size is the length of the content.
Included_content_size(path, content, size) ==
    [kind |-> "Included", path |-> path, content |-> content,
     reason |-> "", size |-> Size(content)]

Included(path, content, size) ==
    [kind |-> "Included", path |-> path, content |-> content,
     reason |-> "", size |-> size]

Omitted(path, reason, size) ==
    [kind |-> "Omitted", path |-> path, content |-> <<>>,
     reason |-> reason, size |-> size]

NoStatus ==
    [kind |-> "None", path |-> <<>>, content |-> <<>>, reason |-> "", size |-> 0]

(***************************************************************************)
(* The extractor, process_file, in its three system calls: metadata,       *)
(* open and read.  The file may change between them.                       *)
(***************************************************************************)
max_bytes == saturating_mul(cfg.max_file_mb, MiB)
read_limit == saturating_add(max_bytes, 1)
max_total_bytes == saturating_mul(cfg.max_total_mb, MiB)

\* The static size gate.
size_exceeds(size) == size > max_bytes

\* A variant of read_exceeds that trusts the size seen before the read.
read_exceeds_unchecked(len) == FALSE

\* The check after the bounded read.
read_exceeds(len) == len > max_bytes

\* Encoding::for_bom: the encoding the first bytes are the mark of.
for_bom(bytes) ==
    IF has_utf8_bom(bytes) THEN "UTF-8"
    ELSE IF At(bytes, 1) = 255 /\ At(bytes, 2) = 254 THEN "UTF-16LE"
    ELSE IF At(bytes, 1) = 254 /\ At(bytes, 2) = 255 THEN "UTF-16BE"
    ELSE "none"

\* Encoding::decode: [text, had_errors].  A byte order mark at the start
\* is removed and decides the encoding, whatever encoding was asked for.
decode(encoding, bytes) ==
    LET bom == for_bom(bytes)
        actual == IF bom = "none" THEN encoding ELSE bom
        without_bom == IF bom = "none" THEN bytes
                       ELSE Drop(bytes, IF bom = "UTF-8" THEN 3 ELSE 2)
    IN  IF actual = "UTF-8"
        THEN LET r == utf8_decode(without_bom)
             IN  [text |-> r.text, had_errors |-> ~r.ok]
        ELSE IF actual = "windows-1252"
        THEN [text |-> windows_1252_decode(without_bom), had_errors |-> FALSE]
        ELSE LET r == utf16_decode(without_bom, actual = "UTF-16BE")
             IN  [text |-> r.text, had_errors |-> ~r.ok]

\* encoding_rs::UTF_8.decode(&full_buffer)
decode_utf8(full_buffer) == decode("UTF-8", full_buffer)

\* control_ratio > FALLBACK_CONTROL_THRESHOLD (0.01) on the fallback text.
too_many_controls(text) ==
    LET control_count == control_chars(text)
        char_count == Max(Size(text), 1)
    IN  control_count * 100 > char_count

\* A variant of process_file_stat without the zero-size fast path.
process_file_stat_always_open(path, d) ==
    IF ~d.exists THEN Omitted(path, "Failed to read metadata", 0)
    ELSE IF size_exceeds(Size(d.bytes))
    THEN Omitted(path, "Size exceeds limit", Size(d.bytes))
    ELSE NoStatus

\* process_file up to the zero-size fast path; NoStatus: go on to open.
process_file_stat(path, d) ==
    IF ~d.exists THEN Omitted(path, "Failed to read metadata", 0)
    ELSE LET size == Size(d.bytes) IN
        IF size_exceeds(size) THEN Omitted(path, "Size exceeds limit", size)
        ELSE IF size = 0 THEN Included(path, <<>>, 0)
        ELSE NoStatus

\* The bytes read_to_end returns from the file as it is now.
bounded_read(d) == Take(d.bytes, read_limit)

\* A variant of strip_enabled that also strips a file of exactly 1 MiB.
strip_enabled_inclusive(len) == cfg.remove_comments /\ len <= MAX_STRIP_SIZE

\* config.remove_comments && (full_buffer.len() as u64) < MAX_STRIP_SIZE
strip_enabled(len) == cfg.remove_comments /\ len < MAX_STRIP_SIZE

\* process_file from File::open on; size is the metadata length seen before.
process_file_read(path, size, d) ==
    IF ~d.exists \/ d.mode = "noopen" THEN Omitted(path, "Failed to open file", size)
    ELSE IF d.mode = "ioerr" THEN Omitted(path, "Failed to read file", size)
    ELSE LET full_buffer == bounded_read(d)
             len == Size(full_buffer)
             sample_len == Min(SAMPLE_SIZE, len)
         IN
        IF read_exceeds(len)
        THEN Omitted(path, "File content exceeded limit (detected during read)", len)
        ELSE IF ~is_mostly_text(Take(full_buffer, sample_len))
        THEN Omitted(path, "Binary detected", len)
        ELSE LET dec == decode_utf8(full_buffer) IN
            IF dec.had_errors
               /\ too_many_controls(decode("windows-1252", full_buffer).text)
            THEN Omitted(path, "Too many control chars", len)
            ELSE LET decoded == IF dec.had_errors
                                THEN decode("windows-1252", full_buffer).text
                                ELSE dec.text
                     content == IF strip_enabled(len)
                                THEN strip_comments(decoded, extension_or(path, <<>>))
                                ELSE decoded
                 IN  Included(path, content, len)

\* process_file on a file that stays as it is between metadata and read.
process_file(path, d) ==
    LET status == process_file_stat(path, d)
    IN  IF status = NoStatus
        THEN process_file_read(path, Size(d.bytes), d)
        ELSE status

(***************************************************************************)
(* output.rs: SnapshotWriter.                                              *)
(***************************************************************************)
\* content.lines().count()
RECURSIVE count_char(_, _)
count_char(t, c) ==
    IF t = <<>> THEN 0
    ELSE (IF Head(t).c = c THEN Head(t).n ELSE 0) + count_char(Tail(t), c)

lines_count(content) ==
    count_char(content, LF)
    + (IF content # <<>> /\ ~EndsWith(content, LF) THEN 1 ELSE 0)

\* The section write_file_content writes into the body buffer.
write_file_content(path, content) ==
    LET fence == fence_for(content) IN
        [heading |-> rel_path_str(path),
         open    |-> fence,
         tag     |-> extension_or(path, <<>>),
         content |-> content,
         newline |-> ~EndsWith(content, LF),
         close   |-> fence]

\* stats_by_extension.entry(ext).or_default()
stats_entry(stats, ext) ==
    IF \E e \in stats : e.ext = ext
    THEN CHOOSE e \in stats : e.ext = ext
    ELSE [ext |-> ext, count |-> 0, bytes |-> 0]

stats_add(stats, ext, size) ==
    LET entry == stats_entry(stats, ext) IN
        (stats \ {entry})
        \cup {[ext |-> ext, count |-> entry.count + 1, bytes |-> entry.bytes + size]}

\* A variant of process_status that keeps no record of a candidate whose
\* metadata main could not read.
process_status_unrecorded(status, write_ok) ==
    IF status.kind = "Included" THEN
        /\ stats_by_extension' =
              stats_add(stats_by_extension, extension_or(status.path, NO_EXT),
                        status.size)
        /\ top_offenders' =
              Append(top_offenders, [path |-> status.path, size |-> status.size])
        /\ IF write_ok THEN
              /\ body_writer' =
                    Append(body_writer,
                           write_file_content(status.path, status.content))
              /\ included_paths' = Append(included_paths, status.path)
              /\ total_bytes' = total_bytes + status.size
              /\ total_lines' = total_lines + lines_count(status.content)
           ELSE UNCHANGED <<body_writer, included_paths, total_bytes, total_lines>>
        /\ UNCHANGED omitted
    ELSE
        /\ omitted' = IF status.reason = "Metadata error" THEN omitted
                      ELSE Append(omitted, [path |-> status.path,
                                            reason |-> status.reason,
                                            size |-> status.size])
        /\ UNCHANGED <<stats_by_extension, top_offenders, body_writer,
                       included_paths, total_bytes, total_lines>>

\* process_status; write_ok: whether the write into the body buffer succeeds
\* (its failure is returned by '?' after the statistics were updated).
process_status(status, write_ok) ==
    IF status.kind = "Included" THEN
        /\ stats_by_extension' =
              stats_add(stats_by_extension, extension_or(status.path, NO_EXT),
                        status.size)
        /\ top_offenders' =
              Append(top_offenders, [path |-> status.path, size |-> status.size])
        /\ IF write_ok THEN
              /\ body_writer' =
                    Append(body_writer,
                           write_file_content(status.path, status.content))
              /\ included_paths' = Append(included_paths, status.path)
              /\ total_bytes' = total_bytes + status.size
              /\ total_lines' = total_lines + lines_count(status.content)
           ELSE UNCHANGED <<body_writer, included_paths, total_bytes, total_lines>>
        /\ UNCHANGED omitted
    ELSE
        /\ omitted' = Append(omitted, [path |-> status.path,
                                       reason |-> status.reason,
                                       size |-> status.size])
        /\ UNCHANGED <<stats_by_extension, top_offenders, body_writer,
                       included_paths, total_bytes, total_lines>>

\* sort_by(|a, b| b.size.cmp(&a.size)): stable, by size descending.
RECURSIVE insert_by_size(_, _)
insert_by_size(sorted, e) ==
    IF sorted = <<>> THEN <<e>>
    ELSE IF Head(sorted).size < e.size THEN <<e>> \o sorted
    ELSE <<Head(sorted)>> \o insert_by_size(Tail(sorted), e)

RECURSIVE sort_by_size(_, _)
sort_by_size(seq, acc) ==
    IF seq = <<>> THEN acc
    ELSE sort_by_size(Tail(seq), insert_by_size(acc, Head(seq)))

truncate(seq, n) == SubSeq(seq, 1, Min(Len(seq), n))

\* A variant of sorted_offenders that sorts and keeps every entry.
sorted_offenders_untruncated(offenders) == sort_by_size(offenders, <<>>)

\* The top offenders as finalize leaves them.
sorted_offenders(offenders) == truncate(sort_by_size(offenders, <<>>), TOP_N)

RECURSIVE toc_lines(_)
toc_lines(paths) ==
    IF paths = <<>> THEN <<>>
    ELSE <<rel_path_str(Head(paths))>> \o toc_lines(Tail(paths))

\* The rows of the omission table: '|' in a reason is escaped by the code;
\* the reasons of the model hold none.
RECURSIVE omitted_rows(_)
omitted_rows(list) ==
    IF list = <<>> THEN <<>>
    ELSE <<[path |-> rel_path_str(Head(list).path),
            size |-> Head(list).size,
            reason |-> Head(list).reason]>> \o omitted_rows(Tail(list))

\* The orders in which the composition table may list the extensions: the
\* hash map is iterated in an arbitrary order, then sorted by bytes,
\* descending and stable.
composition_orders(stats) ==
    {o \in [1..Cardinality(stats) -> stats] :
        /\ \A i, j \in 1..Cardinality(stats) : i # j => o[i] # o[j]
        /\ \A i \in 1..Cardinality(stats) - 1 : o[i].bytes >= o[i + 1].bytes}

NoDoc ==
    [written |-> FALSE, output |-> "none", toc |-> <<>>, body |-> <<>>,
     errors |-> <<>>, omitted |-> <<>>, files_included |-> 0,
     files_omitted |-> 0, total_bytes |-> 0, total_lines |-> 0,
     composition |-> <<>>, top_offenders |-> <<>>]

\* The section of the discovery errors: nothing when there is none, else
\* its heading and one line for each.
errors_section(discovery_errors) ==
    IF discovery_errors = <<>> THEN <<>>
    ELSE <<[line |-> "## Discovery Errors", error |-> <<>>]>>
         \o [i \in DOMAIN discovery_errors |->
                [line |-> "- {error}", error |-> discovery_errors[i]]]

\* The paths of a list of (path, size) entries.
offender_paths(offenders) == [i \in DOMAIN offenders |-> offenders[i].path]

\* A variant of render that lists the contents in the order of the sorted
\* largest files.
render_sorted_by_size(output, composition) ==
    [written |-> TRUE, output |-> output,
     toc |-> toc_lines(offender_paths(sorted_offenders(top_offenders))),
     body |-> body_writer,
     errors |-> errors_section(errors),
     omitted |-> omitted_rows(omitted),
     files_included |-> Len(included_paths),
     files_omitted |-> Len(omitted),
     total_bytes |-> total_bytes,
     total_lines |-> total_lines,
     composition |-> composition,
     top_offenders |-> sorted_offenders(top_offenders)]

\* The document finalize renders and the statistics it returns.
render(output, composition) ==
    [written |-> TRUE, output |-> output,
     toc |-> toc_lines(included_paths),
     body |-> body_writer,
     errors |-> errors_section(errors),
     omitted |-> omitted_rows(omitted),
     files_included |-> Len(included_paths),
     files_omitted |-> Len(omitted),
     total_bytes |-> total_bytes,
     total_lines |-> total_lines,
     composition |-> composition,
     top_offenders |-> sorted_offenders(top_offenders)]

(***************************************************************************)
(* The inputs of a run: configurations, candidate lists, file contents.    *)
(***************************************************************************)
\* The limits and the comment switch vary; the lists are a part of the
\* default lists.
Config(file_mb, total_mb, strip) ==
    [max_file_mb |-> file_mb, max_total_mb |-> total_mb,
     remove_comments |-> strip, include_lockfiles |-> FALSE,
     use_gitignore |-> TRUE, depth |-> 50,
     exclude_ext |-> {<<"p", "e", "m">>, <<"k", "e", "y">>},
     exclude_dir |-> {<<".", "g", "i", "t">>, <<"t", "a", "r", "g", "e", "t">>},
     exclude_file |-> {<<".", "g", "i", "t", "i", "g", "n", "o", "r", "e">>}]

\* Limits in MB: equal, budget above the file limit, file limit above the
\* budget, and values whose byte count saturates.
PipelineConfigs ==
    {Config(1, 1, FALSE), Config(1, 1, TRUE), Config(1, 2, FALSE),
     Config(2, 1, FALSE), Config(1024, 1024, FALSE)}

Args(dry_run, force) ==
    [dry_run |-> dry_run, force |-> force, root |-> <<"r">>]

\* The runs of the pipeline and the file found at the output path: every
\* configuration as a dry run with no file there; the first also as a dry
\* run with a file there, and writing a file, with and without --force,
\* where there is no file, a file, or a path that cannot be opened.
PipelineRuns ==
    {[cfg |-> c, args |-> Args(TRUE, FALSE), dest |-> "absent"] :
        c \in PipelineConfigs}
    \cup {[cfg |-> Config(1, 1, FALSE), args |-> Args(TRUE, FALSE),
            dest |-> "existing"]}
    \cup {[cfg |-> Config(1, 1, FALSE), args |-> Args(FALSE, force),
            dest |-> found] :
            force \in BOOLEAN, found \in {"absent", "existing", "unwritable"}}

\* a.rs, s/m.py and z.
PipelinePaths ==
    {<<<<"a", ".", "r", "s">>>>, <<<<"s">>, <<"m", ".", "p", "y">>>>, <<<<"z">>>>}

\* A list find_files can return: distinct paths, sorted by clean_path.
is_sorted(files) ==
    \A i \in 1..Len(files) - 1 :
        str_le(clean_path(files[i]), clean_path(files[i + 1]))

CandidateLists(paths, n) ==
    {f \in UNION {[1..k -> paths] : k \in 0..n} :
        /\ \A i, j \in DOMAIN f : i # j => f[i] # f[j]
        /\ is_sorted(f)}

\* A directory entry: its path from the root, its type, whether an ignore
\* rule matches it and whether reading it (a directory) is denied.
Entry(path, kind) ==
    [path |-> path, kind |-> kind, ignored |-> FALSE, denied |-> FALSE,
     target |-> <<>>]

\* The tree a candidate list was found in.
TreeOf(files) ==
    {Entry(files[i], "file") : i \in DOMAIN files}
    \cup {Entry(SubSeq(files[i], 1, 1), "dir") :
            i \in {j \in DOMAIN files : Len(files[j]) > 1}}

\* The contents of the files: "a//#\n", a comment in the C style and
\* another in the Hash style; a zero byte first, last in the sniffed sample
\* and just past the sample; exactly one MiB of text, "//aa...", which is
\* one comment in the C style, and one byte more of plain text.
CONTENT ==
    [text_small |-> <<Run(97, 1), Run(SLASH, 2), Run(HASH, 1), Run(LF, 1)>>,
     nul_first |-> <<Run(NUL, 1), Run(97, 4)>>,
     nul_in_sample |-> <<Run(97, SAMPLE_SIZE - 1), Run(NUL, 1)>>,
     nul_past_sample |-> <<Run(97, SAMPLE_SIZE), Run(NUL, 1)>>,
     text_mib |-> <<Run(SLASH, 2), Run(97, MiB - 2)>>,
     text_mib_1 |-> <<Run(97, MiB + 1)>>]

Contents == {<<>>} \cup {CONTENT[k] : k \in DOMAIN CONTENT}

OnDisk(bytes, mode) == [exists |-> TRUE, mode |-> mode, bytes |-> bytes]
Missing == [exists |-> FALSE, mode |-> "ok", bytes |-> <<>>]

\* What a file can be when main or the extractor looks at it: gone, there
\* but not openable (with content or empty), failing on read, or readable
\* with some content.
DiskStates ==
    {Missing, OnDisk(CONTENT.text_small, "noopen"), OnDisk(<<>>, "noopen"),
     OnDisk(CONTENT.text_small, "ioerr")}
    \cup {OnDisk(c, "ok") : c \in Contents}

(***************************************************************************)
(* main.rs: the per-candidate loop.                                        *)
(***************************************************************************)
\* A variant of over_budget that also rejects the file that fits exactly.
over_budget_inclusive(running, size) ==
    saturating_add(running, size) >= max_total_bytes

\* The budget gate: used.saturating_add(size) > max_total_bytes.
over_budget(running, size) == saturating_add(running, size) > max_total_bytes

\* A variant of used_after that adds the size of every result.
used_after_every_result(running, status) ==
    saturating_add(running, status.size)

\* A variant of used_after that adds the size process_file saw in the
\* metadata, before the read.
used_after_stat_size(running, status) ==
    IF status.kind = "Included" THEN saturating_add(running, stat_size)
    ELSE running

\* used after a result: only an Included result adds its size.
used_after(running, status) ==
    IF status.kind = "Included" THEN saturating_add(running, status.size)
    ELSE running

writer_vars ==
    <<included_paths, omitted, total_bytes, total_lines, stats_by_extension,
      top_offenders, body_writer>>

\* The end of one iteration: the update of used, process_status and the
\* next candidate; a failed write into the body buffer ends the run.
Deliver(status, write_ok) ==
    /\ used' = used_after(used, status)
    /\ process_status(status, write_ok)
    /\ included_sum' =
          included_sum + (IF status.kind = "Included" THEN status.size ELSE 0)
    /\ n_results' = n_results + 1
    /\ todo' = Tail(todo)
    /\ disk' = Missing
    /\ stat_size' = 0
    /\ pc' = IF write_ok THEN "loop" ELSE "aborted"

WriteOutcomes(status) == IF status.kind = "Included" THEN BOOLEAN ELSE {TRUE}

\* What main does with the file state d its fs::metadata call finds.
gate(path, d) ==
    IF ~d.exists THEN Omitted(path, "Metadata error", 0)
    ELSE IF over_budget(used, Size(d.bytes))
    THEN Omitted(path, "Budget exceeded", Size(d.bytes))
    ELSE NoStatus

\* fs::metadata in main and the budget gate; NoStatus: process_file is called.
GateStat ==
    /\ pc = "loop"
    /\ todo # <<>>
    /\ \E d \in DiskStates :
        LET status == gate(Head(todo), d) IN
            IF status.kind = "None" THEN
                /\ pc' = "stat"
                /\ disk' = d
                /\ UNCHANGED <<used, todo, stat_size, included_sum, n_results>>
                /\ UNCHANGED writer_vars
            ELSE Deliver(status, TRUE)
    /\ UNCHANGED <<cfg, args, errors, doc, dest, candidates, tree, prev_files, twin>>

\* The file changes under the extractor, between two of its system calls.
FsChange ==
    /\ pc \in {"stat", "read"}
    /\ \E d \in DiskStates \ {disk} : disk' = d
    /\ UNCHANGED <<cfg, args, pc, todo, errors, used, stat_size, doc, dest,
                   included_sum, n_results, candidates, tree, prev_files, twin>>
    /\ UNCHANGED writer_vars

\* process_file: fs::metadata, the static size gate, the zero-size path.
ExtractStat ==
    /\ pc = "stat"
    /\ LET status == process_file_stat(Head(todo), disk) IN
        IF status.kind = "None" THEN
            /\ pc' = "read"
            /\ stat_size' = Size(disk.bytes)
            /\ UNCHANGED <<used, todo, disk, included_sum, n_results>>
            /\ UNCHANGED writer_vars
        ELSE \E write_ok \in WriteOutcomes(status) : Deliver(status, write_ok)
    /\ UNCHANGED <<cfg, args, errors, doc, dest, candidates, tree, prev_files, twin>>

\* process_file: open, the bounded read, the sniff, decoding, stripping.
ExtractRead ==
    /\ pc = "read"
    /\ LET status == process_file_read(Head(todo), stat_size, disk) IN
        \E write_ok \in WriteOutcomes(status) : Deliver(status, write_ok)
    /\ UNCHANGED <<cfg, args, errors, doc, dest, candidates, tree, prev_files, twin>>

\* A variant of open_output that always opens as with --force.
open_output_create(found) ==
    IF found = "unwritable" THEN "Failed to create output file" ELSE "opened"

\* Opening the output file: File::create with --force, which truncates a
\* file that exists, and create_new without, which fails unless it creates
\* the file; either failure carries the context of its branch.
open_output(found) ==
    IF args.force
    THEN IF found = "unwritable" THEN "Failed to create output file"
         ELSE "opened"
    ELSE IF found = "absent" THEN "opened" ELSE "Output file exists"

\* writer.finalize, after the last candidate.
Finalize ==
    /\ pc = "loop"
    /\ todo = <<>>
    /\ top_offenders' = sorted_offenders(top_offenders)
    /\ \E composition \in composition_orders(stats_by_extension) :
        IF args.dry_run THEN
            /\ doc' = render("stdout", composition)
            /\ dest' = dest
            /\ pc' = "done"
        ELSE IF open_output(dest) # "opened" THEN
            /\ doc' = [NoDoc EXCEPT !.output = open_output(dest)]
            /\ dest' = dest
            /\ pc' = "failed"
        ELSE
            /\ doc' = render("file", composition)
            /\ dest' = "snapshot"
            /\ pc' = "done"
    /\ UNCHANGED <<cfg, args, todo, errors, used, disk, stat_size,
                   included_paths, omitted, total_bytes, total_lines,
                   stats_by_extension, body_writer, included_sum, n_results,
                   candidates, tree, prev_files, twin>>

Init ==
    /\ \E run \in PipelineRuns :
          cfg = run.cfg /\ args = run.args /\ dest = run.dest
    /\ pc = "loop"
    /\ todo \in CandidateLists(PipelinePaths, MaxFiles)
    /\ candidates = todo
    /\ tree = TreeOf(todo)
    /\ prev_files = <<>>
    /\ twin = <<>>
    /\ errors = <<>>
    /\ used = 0
    /\ disk = Missing
    /\ stat_size = 0
    /\ included_paths = <<>>
    /\ omitted = <<>>
    /\ total_bytes = 0
    /\ total_lines = 0
    /\ stats_by_extension = {}
    /\ top_offenders = <<>>
    /\ body_writer = <<>>
    /\ doc = NoDoc
    /\ included_sum = 0
    /\ n_results = 0

Next == GateStat \/ FsChange \/ ExtractStat \/ ExtractRead \/ Finalize

Spec == Init /\ [][Next]_vars

(***************************************************************************)
(* The fence written around a content, for contents of a few runs of       *)
(* letters, backticks and newlines.                                        *)
(***************************************************************************)
\* Longest content, in runs.
MaxRuns == 3

FenceRuns == {Run(c, n) : c \in {97, BACKTICK, LF}, n \in {1, 2, 3, 10, 110}}
FenceTexts == UNION {[1..k -> FenceRuns] : k \in 0..MaxRuns}

FenceInit ==
    /\ cfg = Config(1, 1, FALSE)
    /\ args = Args(TRUE, FALSE)
    /\ pc = "fence"
    /\ todo \in CandidateLists(PipelinePaths, 1) \ {<<>>}
    /\ candidates = todo
    /\ tree = TreeOf(todo)
    /\ prev_files = <<>>
    /\ twin = <<>>
    /\ errors = <<>>
    /\ used = 0
    /\ disk = Missing
    /\ stat_size = 0
    /\ included_paths = <<>>
    /\ omitted = <<>>
    /\ total_bytes = 0
    /\ total_lines = 0
    /\ stats_by_extension = {}
    /\ top_offenders = <<>>
    /\ body_writer = <<>>
    /\ doc = NoDoc
    /\ dest = "absent"
    /\ included_sum = 0
    /\ n_results = 0

\* process_status of an Included result with any of the contents.
WriteSection ==
    /\ pc = "fence"
    /\ \E content \in FenceTexts :
        LET text == [i \in DOMAIN content |-> content[i]] IN
            /\ process_status(Included(Head(todo), text, Size(text)), TRUE)
            /\ included_sum' = included_sum + Size(text)
    /\ n_results' = n_results + 1
    /\ todo' = Tail(todo)
    /\ pc' = "fenced"
    /\ UNCHANGED <<cfg, args, candidates, errors, used, disk, stat_size, doc,
                   dest, tree, prev_files, twin>>

FenceNext == WriteSection

SpecFence == FenceInit /\ [][FenceNext]_vars

(***************************************************************************)
(* The loop over more candidates than the list of the largest files keeps: *)
(* each file stays as it is during its iteration and is empty, small text  *)
(* with comments, eight letters, or binary.                                *)
(***************************************************************************)
\* Number of candidates of these runs.
MaxIncluded == 6

\* a.py, b, c.rs, d.py, e, f.rs, ...: sorted by clean_path.
StatsFiles ==
    LET letter == <<"a", "b", "c", "d", "e", "f", "g", "h">>
        ext == <<<<".", "p", "y">>, <<>>, <<".", "r", "s">>>>
    IN  [i \in 1..MaxIncluded |-> <<<<letter[i]>> \o ext[((i - 1) % 3) + 1]>>]

StatsInit ==
    /\ cfg = Config(1, 1, FALSE)
    /\ args = Args(TRUE, FALSE)
    /\ dest = "absent"
    /\ pc = "loop"
    /\ todo = StatsFiles
    /\ candidates = todo
    /\ tree = TreeOf(todo)
    /\ prev_files = <<>>
    /\ twin = <<>>
    /\ errors = <<>>
    /\ used = 0
    /\ disk = Missing
    /\ stat_size = 0
    /\ included_paths = <<>>
    /\ omitted = <<>>
    /\ total_bytes = 0
    /\ total_lines = 0
    /\ stats_by_extension = {}
    /\ top_offenders = <<>>
    /\ body_writer = <<>>
    /\ doc = NoDoc
    /\ included_sum = 0
    /\ n_results = 0

\* One whole iteration of the loop: the gate, process_file, process_status.
LoopIteration ==
    /\ pc = "loop"
    /\ todo # <<>>
    /\ \E bytes \in {<<>>, CONTENT.text_small, CONTENT.nul_first,
                      <<Run(97, 8)>>} :
        \E d \in {OnDisk(bytes, "ok")} :
            \E status \in {IF gate(Head(todo), d) = NoStatus
                           THEN process_file(Head(todo), d)
                           ELSE gate(Head(todo), d)} :
                Deliver(status, TRUE)
    /\ UNCHANGED <<cfg, args, errors, doc, dest, candidates, tree, prev_files, twin>>

SpecStats == StatsInit /\ [][LoopIteration \/ Finalize]_vars

(***************************************************************************)
(* Two runs on the same tree, with remove_comments off and on: the         *)
(* variables hold the run that moves, twin the files and the other run.    *)
(* The run that is not behind handles its next candidate; the run that is  *)
(* ahead hands over to the other.                                          *)
(***************************************************************************)
\* The state of the loop of the run that moves.
RunState ==
    [cfg |-> cfg, todo |-> todo, used |-> used,
     included_paths |-> included_paths, omitted |-> omitted,
     total_bytes |-> total_bytes, total_lines |-> total_lines,
     stats_by_extension |-> stats_by_extension,
     top_offenders |-> top_offenders, body_writer |-> body_writer,
     included_sum |-> included_sum, n_results |-> n_results]

\* The files are empty, small text with comments, binary, exactly 1 MiB
\* that is one comment, or one byte less of the same.
ToggleInit ==
    /\ cfg = Config(1, 1, FALSE)
    /\ args = Args(TRUE, FALSE)
    /\ dest = "absent"
    /\ pc = "loop"
    /\ todo \in CandidateLists(PipelinePaths, MaxFiles) \ {<<>>}
    /\ candidates = todo
    /\ tree = TreeOf(todo)
    /\ prev_files = <<>>
    /\ errors = <<>>
    /\ used = 0
    /\ disk = Missing
    /\ stat_size = 0
    /\ included_paths = <<>>
    /\ omitted = <<>>
    /\ total_bytes = 0
    /\ total_lines = 0
    /\ stats_by_extension = {}
    /\ top_offenders = <<>>
    /\ body_writer = <<>>
    /\ doc = NoDoc
    /\ included_sum = 0
    /\ n_results = 0
    /\ \E files \in [1..Len(todo) ->
                        {<<>>, CONTENT.text_small, CONTENT.nul_first,
                         CONTENT.text_mib,
                         <<Run(SLASH, 2), Run(97, MiB - 3)>>}] :
          twin = [files |-> files,
                  run |-> [RunState EXCEPT !.cfg = Config(1, 1, TRUE)]]

\* One whole iteration of the loop of the run that moves.
TwinIteration ==
    /\ pc = "loop"
    /\ todo # <<>>
    /\ Len(todo) >= Len(twin.run.todo)
    /\ \E d \in {OnDisk(twin.files[Len(candidates) - Len(todo) + 1], "ok")} :
        \E status \in {IF gate(Head(todo), d) = NoStatus
                       THEN process_file(Head(todo), d)
                       ELSE gate(Head(todo), d)} :
            Deliver(status, TRUE)
    /\ UNCHANGED <<cfg, args, errors, doc, dest, candidates, tree, prev_files,
                   twin>>

\* The run that is ahead stops and the other run moves.
SwitchRun ==
    /\ pc = "loop"
    /\ Len(todo) < Len(twin.run.todo)
    /\ cfg' = twin.run.cfg
    /\ todo' = twin.run.todo
    /\ used' = twin.run.used
    /\ included_paths' = twin.run.included_paths
    /\ omitted' = twin.run.omitted
    /\ total_bytes' = twin.run.total_bytes
    /\ total_lines' = twin.run.total_lines
    /\ stats_by_extension' = twin.run.stats_by_extension
    /\ top_offenders' = twin.run.top_offenders
    /\ body_writer' = twin.run.body_writer
    /\ included_sum' = twin.run.included_sum
    /\ n_results' = twin.run.n_results
    /\ twin' = [twin EXCEPT !.run = RunState]
    /\ UNCHANGED <<args, pc, errors, disk, stat_size, doc, dest, candidates,
                   tree, prev_files>>

SpecToggle == ToggleInit /\ [][TwinIteration \/ SwitchRun]_vars

(***************************************************************************)
(* The extractor on one file, for bytes in several encodings: with and     *)
(* without a byte order mark, with a byte or a sequence above 0x7F, with   *)
(* control characters, and ASCII text after them.                          *)
(***************************************************************************)
\* Most control characters in a file.
MaxControls == 2

EncodedFiles ==
    {bom \o high \o controls \o text :
        bom \in {<<>>, <<Run(239, 1), Run(187, 1), Run(191, 1)>>,
                 <<Run(255, 1), Run(254, 1)>>, <<Run(254, 1), Run(255, 1)>>},
        high \in {<<>>, <<Run(233, 1)>>, <<Run(195, 1), Run(169, 1)>>},
        controls \in {<<>>} \cup {<<Run(c, n)>> : c \in {1, ESC, 129},
                                                  n \in 1..MaxControls},
        text \in {<<Run(97, n)>> : n \in {2, 98, 198}}}

ExtractInit ==
    /\ cfg = Config(1, 1, FALSE)
    /\ args = Args(TRUE, FALSE)
    /\ pc = "extract"
    /\ todo \in CandidateLists(PipelinePaths, 1) \ {<<>>}
    /\ candidates = todo
    /\ tree = TreeOf(todo)
    /\ prev_files = <<>>
    /\ twin = <<>>
    /\ errors = <<>>
    /\ used = 0
    /\ disk = Missing
    /\ stat_size = 0
    /\ included_paths = <<>>
    /\ omitted = <<>>
    /\ total_bytes = 0
    /\ total_lines = 0
    /\ stats_by_extension = {}
    /\ top_offenders = <<>>
    /\ body_writer = <<>>
    /\ doc = NoDoc
    /\ dest = "absent"
    /\ included_sum = 0
    /\ n_results = 0

\* One iteration of the loop on a file with any of the contents.
ProcessFile ==
    /\ pc = "extract"
    /\ \E bytes \in EncodedFiles :
        LET d == OnDisk(bytes, "ok")
            status == process_file(Head(todo), d)
        IN  /\ disk' = d
            /\ stat_size' = Size(bytes)
            /\ used' = used_after(used, status)
            /\ process_status(status, TRUE)
            /\ included_sum' =
                  included_sum
                  + (IF status.kind = "Included" THEN status.size ELSE 0)
    /\ n_results' = n_results + 1
    /\ todo' = Tail(todo)
    /\ pc' = "extracted"
    /\ UNCHANGED <<cfg, args, candidates, errors, doc, dest, tree, prev_files, twin>>

SpecExtract == ExtractInit /\ [][ProcessFile]_vars

(***************************************************************************)
(* The extractor with remove_comments on, on one file of each comment      *)
(* style, for every short text of the characters the expression of the     *)
(* style looks at and of characters that mean something in another style.  *)
(***************************************************************************)
\* Longest text, in characters.
MaxLen == 5

\* a.rs, s/m.py, q.SQL and z, each with the characters of its texts.
StripCases ==
    {[path |-> <<<<"a", ".", "r", "s">>>>,
      chars |-> {QUOTE, APOSTROPHE, BACKSLASH, SLASH, STAR, HASH, LF}],
     [path |-> <<<<"s">>, <<"m", ".", "p", "y">>>>,
      chars |-> {QUOTE, APOSTROPHE, BACKSLASH, SLASH, HASH, LF}],
     [path |-> <<<<"q", ".", "S", "Q", "L">>>>,
      chars |-> {QUOTE, APOSTROPHE, BACKSLASH, DASH, HASH, LF}],
     [path |-> <<<<"z">>>>,
      chars |-> {QUOTE, SLASH, HASH, DASH, LF}]}

StripInit ==
    /\ cfg = Config(1, 1, TRUE)
    /\ args = Args(TRUE, FALSE)
    /\ pc = "strip"
    /\ \E case \in StripCases : todo = <<case.path>>
    /\ candidates = todo
    /\ tree = TreeOf(todo)
    /\ prev_files = <<>>
    /\ twin = <<>>
    /\ errors = <<>>
    /\ used = 0
    /\ disk = Missing
    /\ stat_size = 0
    /\ included_paths = <<>>
    /\ omitted = <<>>
    /\ total_bytes = 0
    /\ total_lines = 0
    /\ stats_by_extension = {}
    /\ top_offenders = <<>>
    /\ body_writer = <<>>
    /\ doc = NoDoc
    /\ dest = "absent"
    /\ included_sum = 0
    /\ n_results = 0

\* One iteration of the loop on a file with any of the texts.
StripFile ==
    /\ pc = "strip"
    /\ \E case \in StripCases :
        /\ case.path = Head(todo)
        /\ \E text \in UNION {[1..k -> {Run(c, 1) : c \in case.chars}] :
                                k \in 0..MaxLen} :
           \E d \in {OnDisk([i \in DOMAIN text |-> text[i]], "ok")} :
           \E status \in {process_file(Head(todo), d)} :
              /\ disk' = d
              /\ stat_size' = Size(d.bytes)
              /\ used' = used_after(used, status)
              /\ process_status(status, TRUE)
              /\ included_sum' =
                    included_sum
                    + (IF status.kind = "Included" THEN status.size ELSE 0)
    /\ n_results' = n_results + 1
    /\ todo' = Tail(todo)
    /\ pc' = "stripped"
    /\ UNCHANGED <<cfg, args, candidates, errors, doc, dest, tree, prev_files, twin>>

SpecStrip == StripInit /\ [][StripFile]_vars

(***************************************************************************)
(* discovery.rs: find_files over a directory tree.                         *)
(***************************************************************************)
\* Most top-level items of the root (a file, or a directory and its file).
MaxEntries == 3

File(name) == {Entry(<<name>>, "file")}

\* A directory and one file in it.
DirWith(dir, name) == {Entry(<<dir>>, "dir"), Entry(<<dir, name>>, "file")}

DOT_ENV == <<".", "e", "n", "v">>
DOT_ENVRC == <<".", "e", "n", "v", "r", "c">>
CTXSNAP_TOML == <<"c", "t", "x", "s", "n", "a", "p", ".", "t", "o", "m", "l">>

\* The names of the files of the trees; x and prefixed_x have one sort key,
\* clean_path trims the prefix of the second.
NAME ==
    [a_txt |-> <<"a", ".", "t", "x", "t">>,
     m_txt |-> <<"m", ".", "t", "x", "t">>,
     z_txt |-> <<"z", ".", "t", "x", "t">>,
     x |-> <<"x">>,
     prefixed_x |-> UNC_PREFIX \o <<"x">>,
     env_local |-> <<".", "E", "N", "V", ".", "l", "o", "c", "a", "l">>,
     env_example |-> <<".", "e", "n", "v", ".", "e", "x", "a", "m", "p", "l", "e">>,
     env_sample |-> <<".", "E", "n", "v", ".", "S", "A", "M", "P", "L", "E">>,
     cargo_lock |-> <<"C", "a", "r", "g", "o", ".", "l", "o", "c", "k">>,
     merged |-> <<"m", "e", "r", "g", "e", "d", "_", "2", "0", "2", "4", "0",
                  "1", "0", "1", "_", "0", "0", "0", "0", "0", "0", ".", "m",
                  "d">>]

\* The items a root is made of: plain files, a subdirectory, secret-like
\* names and their allow-listed variants, tool and lock files,
\* pruned directories, a symbolic link, an ignored file and a directory
\* that cannot be read.
TreeItems ==
    {File(NAME.a_txt), File(NAME.z_txt), DirWith(<<"s">>, NAME.m_txt),
     File(NAME.x), File(NAME.prefixed_x),
     File(DOT_ENV), File(NAME.env_local), File(NAME.env_example),
     File(NAME.env_sample), File(DOT_ENVRC),
     File(NAME.cargo_lock), File(CTXSNAP_TOML), File(NAME.merged),
     DirWith(<<".", "G", "i", "t">>, <<"c">>),
     DirWith(<<"T", "A", "R", "G", "E", "T">>, <<"o">>),
     {[Entry(<<<<"l">>>>, "symlink") EXCEPT !.target = <<NAME.a_txt>>]},
     {[Entry(<<<<"i", ".", "l", "o", "g">>>>, "file") EXCEPT !.ignored = TRUE]},
     {[Entry(<<<<"u">>>>, "dir") EXCEPT !.denied = TRUE],
      Entry(<<<<"u">>, <<"f">>>>, "file")}}

Trees ==
    {UNION items : items \in {c \in SUBSET TreeItems : Cardinality(c) <= MaxEntries}}

\* Runs of discovery: the defaults in a root named r; user lists that name
\* an allow-listed file, the extension of another and the extension of the
\* lock files, which are included, with a shallow walk, in a root named
\* as a configured excluded directory; and no exclusions,
\* lock files included, ignore rules off, in a root named .git.
DiscoveryRuns ==
    LET default == Config(1, 1, FALSE)
        dry_run == Args(TRUE, FALSE)
    IN  {[cfg |-> default, args |-> dry_run],
         [cfg |-> [default EXCEPT
                     !.exclude_file = @ \cup {NAME.env_example},
                     !.exclude_ext = @ \cup {<<"S", "a", "m", "p", "l", "e">>,
                                              <<"L", "o", "c", "k">>},
                     !.include_lockfiles = TRUE, !.depth = 1],
          args |-> [dry_run EXCEPT !.root = <<"T", "a", "r", "g", "e", "t">>]],
         [cfg |-> [default EXCEPT
                     !.exclude_file = {}, !.exclude_ext = {},
                     !.exclude_dir = {}, !.include_lockfiles = TRUE,
                     !.use_gitignore = FALSE],
          args |-> [dry_run EXCEPT !.root = <<".", "g", "i", "t">>]]}

\* iter().map(|s| s.to_lowercase()).collect()
lowercase_set(list) == {to_lowercase(x) : x \in list}

absolute_exclude_dirs ==
    {<<".", "g", "i", "t">>, <<".", "s", "s", "h">>, <<".", "a", "w", "s">>,
     <<".", "g", "n", "u", "p", "g">>, <<".", "k", "u", "b", "e">>,
     <<".", "c", "a", "r", "g", "o">>, <<".", "r", "u", "s", "t", "u", "p">>}

\* entry.file_name(): of the root (depth 0), the last component of the root.
entry_name(e) == IF e.path = <<>> THEN args.root ELSE file_name(e.path)

\* A variant of filter_entry that knows the configured directories only.
filter_entry_configured_only(e) ==
    ~(/\ Len(e.path) > 0
      /\ e.kind = "dir"
      /\ to_lowercase(entry_name(e)) \in lowercase_set(cfg.exclude_dir))

\* The closure given to filter_entry: FALSE prunes the entry.
filter_entry(e) ==
    LET name_lower == to_lowercase(entry_name(e)) IN
        ~(/\ Len(e.path) > 0
          /\ e.kind = "dir"
          /\ \/ name_lower \in lowercase_set(cfg.exclude_dir)
             \/ name_lower \in absolute_exclude_dirs)

\* The walker yields an entry of a directory it reads: within max_depth,
\* not matched by an ignore rule when these are on, not pruned.
yielded(e) ==
    /\ Len(e.path) <= cfg.depth
    /\ ~(cfg.use_gitignore /\ e.ignored)
    /\ filter_entry(e)

Ok(e) == [ok |-> TRUE, entry |-> e]
Err(e) == [ok |-> FALSE, entry |-> e]

children(t, parent) ==
    {e \in t : /\ Len(e.path) = Len(parent) + 1
               /\ SubSeq(e.path, 1, Len(parent)) = parent}

\* The orders in which a directory can list a set of entries.
RECURSIVE Perms(_)
Perms(S) ==
    IF S = {} THEN {<<>>}
    ELSE UNION {{<<x>> \o p : p \in Perms(S \ {x})} : x \in S}

\* What the walker can yield below a directory: its entries in the order
\* the file system lists them, each directory followed by what is below
\* it; a directory that cannot be read yields an error, a symbolic link is
\* not followed.
RECURSIVE walk(_, _)
RECURSIVE walk_each(_, _)
walk(t, parent) ==
    UNION {walk_each(t, p) : p \in Perms({e \in children(t, parent) : yielded(e)})}

walk_each(t, p) ==
    IF p = <<>> THEN {<<>>}
    ELSE
        LET e == Head(p)
            below == IF e.kind # "dir" THEN {<<>>}
                     ELSE IF e.denied THEN {<<Err(e)>>}
                     ELSE walk(t, e.path)
        IN  {<<Ok(e)>> \o b \o rest : b \in below, rest \in walk_each(t, Tail(p))}

\* What the walker can yield: the root itself, at depth 0, then what is
\* below it; nothing when the root is pruned.
walk_root(t) ==
    IF filter_entry(Entry(<<>>, "dir"))
    THEN {<<Ok(Entry(<<>>, "dir"))>> \o below : below \in walk(t, <<>>)}
    ELSE {<<>>}

is_digit(ch) == ORD[ch] >= ORD["0"] /\ ORD[ch] <= ORD["9"]

\* ^merged_\d{8}_\d{6}\.md$
MERGED_REGEX(name) ==
    /\ Len(name) = 25
    /\ SubSeq(name, 1, 7) = <<"m", "e", "r", "g", "e", "d", "_">>
    /\ \A i \in 8..15 : is_digit(name[i])
    /\ name[16] = "_"
    /\ \A i \in 17..22 : is_digit(name[i])
    /\ SubSeq(name, 23, 25) = <<".", "m", "d">>

LOCKFILES ==
    {<<"C", "a", "r", "g", "o", ".", "l", "o", "c", "k">>,
     <<"p", "a", "c", "k", "a", "g", "e", "-", "l", "o", "c", "k", ".",
       "j", "s", "o", "n">>,
     <<"y", "a", "r", "n", ".", "l", "o", "c", "k">>,
     <<"p", "n", "p", "m", "-", "l", "o", "c", "k", ".", "y", "a", "m", "l">>,
     <<"G", "e", "m", "f", "i", "l", "e", ".", "l", "o", "c", "k">>,
     <<"p", "o", "e", "t", "r", "y", ".", "l", "o", "c", "k">>}

is_lockfile(name) == name \in LOCKFILES

\* A variant of secret_prefix without the allow-listed endings.
secret_prefix_only(name_lower) == starts_with(name_lower, DOT_ENV)

\* The secret prefixes: .env*, but for the example, sample and template
\* endings and .envrc.
secret_prefix(name_lower) ==
    /\ starts_with(name_lower, DOT_ENV)
    /\ ~ends_with(name_lower, <<".", "e", "x", "a", "m", "p", "l", "e">>)
    /\ ~ends_with(name_lower, <<".", "s", "a", "m", "p", "l", "e">>)
    /\ ~ends_with(name_lower, <<".", "t", "e", "m", "p", "l", "a", "t", "e">>)
    /\ name_lower # DOT_ENVRC

\* path.extension() is one of exclude_exts, ignoring ASCII case.
extension_excluded(path) ==
    /\ has_extension(path)
    /\ \E e \in lowercase_set(cfg.exclude_ext) :
          to_lowercase(extension(path)) = to_lowercase(e)

\* A variant of is_symlink that takes no entry for a link.
is_symlink_never(e) == FALSE

\* file_type.map(|ft| ft.is_symlink()).unwrap_or(false)
is_symlink(e) == e.kind = "symlink"

\* A variant of self_output that knows the configuration file only.
self_output_config_only(name) == to_lowercase(name) = CTXSNAP_TOML

\* Rule 1: the tool's own output and configuration files.
self_output(name) == MERGED_REGEX(name) \/ to_lowercase(name) = CTXSNAP_TOML

\* A variant of lockfile_skipped that ignores include_lockfiles.
lockfile_skipped_always(name) == is_lockfile(name)

\* Rule 2: lock files, unless include_lockfiles is set.
lockfile_skipped(name) == ~cfg.include_lockfiles /\ is_lockfile(name)

\* The Ok arm of the loop: TRUE when the entry is pushed to files.
pushed(e) ==
    LET name == file_name(e.path)
        name_lower == to_lowercase(name)
    IN  /\ ~is_symlink(e)
        /\ e.kind # "dir"
        /\ ~self_output(name)
        /\ ~lockfile_skipped(name)
        /\ name_lower \notin lowercase_set(cfg.exclude_file)
        /\ ~secret_prefix(name_lower)
        /\ ~extension_excluded(e.path)

\* A variant of walk_loop that ends the walk at the first error.
RECURSIVE walk_loop_until_error(_, _)
walk_loop_until_error(results, acc) ==
    IF results = <<>> THEN acc
    ELSE
        LET r == Head(results) IN
            IF ~r.ok
            THEN [acc EXCEPT !.errors = Append(@, r.entry.path)]
            ELSE walk_loop_until_error(Tail(results),
                    IF pushed(r.entry)
                    THEN [acc EXCEPT !.files = Append(@, r.entry.path)]
                    ELSE acc)

\* for result in walker: files and errors in the order of the walk.
RECURSIVE walk_loop(_, _)
walk_loop(results, acc) ==
    IF results = <<>> THEN acc
    ELSE
        LET r == Head(results) IN
            walk_loop(Tail(results),
                IF ~r.ok
                THEN [acc EXCEPT !.errors = Append(@, r.entry.path)]
                ELSE IF pushed(r.entry)
                THEN [acc EXCEPT !.files = Append(@, r.entry.path)]
                ELSE acc)

\* A variant of sort_files that leaves the files in the order of the walk.
unsorted_files(files, acc) == acc \o files

\* files.sort_by(clean_path(a).cmp(clean_path(b))): stable, each file goes
\* behind the files whose key is not greater.
RECURSIVE sort_insert(_, _)
sort_insert(sorted, p) ==
    IF sorted = <<>> THEN <<p>>
    ELSE IF str_lt(clean_path(p), clean_path(Head(sorted)))
    THEN <<p>> \o sorted
    ELSE <<Head(sorted)>> \o sort_insert(Tail(sorted), p)

RECURSIVE sort_files(_, _)
sort_files(files, acc) ==
    IF files = <<>> THEN acc
    ELSE sort_files(Tail(files), sort_insert(acc, Head(files)))

\* find_files for one order of the walk.
find_files(results) ==
    LET found == walk_loop(results, [files |-> <<>>, errors |-> <<>>]) IN
        [files |-> sort_files(found.files, <<>>), errors |-> found.errors]

DiscoveryInit ==
    /\ \E run \in DiscoveryRuns : cfg = run.cfg /\ args = run.args
    /\ pc = "discover"
    /\ tree \in Trees
    /\ prev_files = <<>>
    /\ twin = <<>>
    /\ todo = <<>>
    /\ candidates = <<>>
    /\ errors = <<>>
    /\ used = 0
    /\ disk = Missing
    /\ stat_size = 0
    /\ included_paths = <<>>
    /\ omitted = <<>>
    /\ total_bytes = 0
    /\ total_lines = 0
    /\ stats_by_extension = {}
    /\ top_offenders = <<>>
    /\ body_writer = <<>>
    /\ doc = NoDoc
    /\ dest = "absent"
    /\ included_sum = 0
    /\ n_results = 0

pipeline_vars ==
    <<used, disk, stat_size, included_paths, omitted, total_bytes, total_lines,
      stats_by_extension, top_offenders, body_writer, doc, dest, included_sum,
      n_results>>

\* discovery::find_files(&root, &config) in main.
FindFiles ==
    /\ pc = "discover"
    /\ \E results \in walk_root(tree) :
        LET discovery == find_files(results) IN
            /\ todo' = discovery.files
            /\ candidates' = discovery.files
            /\ errors' = discovery.errors
    /\ pc' = "found"
    /\ UNCHANGED <<cfg, args, tree, prev_files, twin>>
    /\ UNCHANGED pipeline_vars

\* The next run on the same tree with the same configuration.
FindFilesAgain ==
    /\ pc = "found"
    /\ prev_files' = candidates
    /\ \E results \in walk_root(tree) :
        LET discovery == find_files(results) IN
            /\ todo' = discovery.files
            /\ candidates' = discovery.files
            /\ errors' = discovery.errors
    /\ pc' = "found_again"
    /\ UNCHANGED <<cfg, args, tree, twin>>
    /\ UNCHANGED pipeline_vars

\* main's loop when discovery found no candidate: finalize is next.
EmptyLoop ==
    /\ pc = "found_again"
    /\ todo = <<>>
    /\ pc' = "loop"
    /\ UNCHANGED <<cfg, args, todo, errors, candidates, tree, prev_files, twin>>
    /\ UNCHANGED pipeline_vars

DiscoveryNext == FindFiles \/ FindFilesAgain \/ EmptyLoop \/ Finalize

SpecDiscovery == DiscoveryInit /\ [][DiscoveryNext]_vars

(***************************************************************************)
(* Properties.                                                             *)
(***************************************************************************)
\* The last element of a non-empty sequence.
Last(seq) == seq[Len(seq)]

\* A step that hands one Omitted result with this reason to the assembler
\* and goes on to the next candidate.
OmittedStep(reason) ==
    /\ Len(omitted') = Len(omitted) + 1
    /\ SubSeq(omitted', 1, Len(omitted)) = omitted
    /\ Last(omitted').path = Head(todo)
    /\ Last(omitted').reason = reason
    /\ included_paths' = included_paths
    /\ body_writer' = body_writer
    /\ todo' = Tail(todo)
    /\ pc' = "loop"

\* C1: at every point of the loop and at finalization, the sum of size over
\* the Included results is at most the total budget, max_total_mb MiB,
\* however the size seen by the gate and the bytes read later relate.
C1_TotalBudgetConserved ==
    pc # "aborted" => included_sum <= max_total_bytes

\* C2: every candidate yields exactly one result handed to the assembler:
\* the results so far and the candidates left add up to the discovered
\* candidates, each result is in the included or in the omitted list, at
\* finalization included + omitted is the number of candidates, and the run
\* is never ended by a candidate's failure (it ends early only when the
\* body buffer rejects the section of an Included result).
C2_OneResultPerCandidate ==
    /\ n_results + Len(todo) = Len(candidates)
    /\ pc # "aborted" => Len(included_paths) + Len(omitted) = n_results
    /\ pc = "aborted" => Len(top_offenders) = Len(included_paths) + 1
    /\ pc \in {"stat", "read"} => todo # <<>>
    /\ pc \in {"done", "failed"} =>
          Len(included_paths) + Len(omitted) = Len(candidates)
    /\ pc = "done" =>
          doc.files_included + doc.files_omitted = Len(candidates)

\* A finished run of two candidates with one Included and one Omitted.
C2_Witness ==
    /\ pc = "done"
    /\ Len(candidates) = 2
    /\ Len(included_paths) = 1
    /\ Len(omitted) = 1

\* One step of main from the top of the loop with a candidate left.
C3_GateStep ==
    (pc = "loop" /\ todo # <<>> /\ pc' # "aborted") =>
        \/ \* admitted: the running total plus the size seen fits the budget
           /\ pc' = "stat"
           /\ disk'.exists
           /\ ~(saturating_add(used, Size(disk'.bytes)) > max_total_bytes)
           /\ omitted' = omitted
           /\ included_paths' = included_paths
        \/ \* rejected, with the size seen, without calling the extractor
           /\ OmittedStep("Budget exceeded")
           /\ saturating_add(used, Last(omitted').size) > max_total_bytes
           /\ used' = used
        \/ \* the metadata could not be read
           /\ OmittedStep("Metadata error")
           /\ Last(omitted').size = 0

\* C3: budget gate: a candidate with readable metadata is Omitted as
\* "Budget exceeded", carrying its on-disk size and without the extractor
\* being called, exactly when the running total plus its on-disk size
\* (saturating) exceeds the total budget; otherwise, also when it fits
\* exactly, it proceeds to extraction.
C3_BudgetGate == [][C3_GateStep]_vars

\* Two files each exactly as large as the budget: the first is Included,
\* the second Omitted as "Budget exceeded" with its size.
C3_Witness ==
    /\ pc = "loop"
    /\ Len(candidates) = 2
    /\ todo = <<>>
    /\ included_paths = <<candidates[1]>>
    /\ total_bytes = max_total_bytes
    /\ omitted = <<[path |-> candidates[2], reason |-> "Budget exceeded",
                    size |-> max_total_bytes]>>

\* One step of the extractor.
C4_ExtractStep ==
    /\ \* no Included result is larger than the per-file limit
       Len(top_offenders') > Len(top_offenders) =>
           Last(top_offenders').size <= max_bytes
    /\ \* the excess seen in the stat size: Omitted, nothing is read
       (pc = "stat" /\ pc' # "stat" /\ disk.exists
            /\ Size(disk.bytes) > max_bytes) =>
           /\ OmittedStep("Size exceeds limit")
           /\ Last(omitted').size = Size(disk.bytes)
    /\ \* the excess seen only in the bytes read
       (pc = "read" /\ pc' # "read" /\ disk.exists /\ disk.mode = "ok"
            /\ Size(disk.bytes) > max_bytes) =>
           /\ OmittedStep("File content exceeded limit (detected during read)")
           /\ Last(omitted').size = max_bytes + 1

\* C4: a file larger than the per-file limit, max_file_mb MiB, is never
\* Included: it is Omitted on its stat size without being read, or on the
\* number of bytes read.
C4_PerFileLimit == [][C4_ExtractStep]_vars

\* A file that passed the static gate and was found too large on reading.
C4_Witness ==
    /\ omitted # <<>>
    /\ Last(omitted).reason = "File content exceeded limit (detected during read)"
    /\ Last(omitted).size > max_bytes

\* C5: a file whose content holds a zero byte, at any offset, is Omitted as
\* binary and gets no section of its own.
C5_ZeroByteOmitted ==
    [][(pc = "read" /\ pc' = "loop" /\ disk.exists /\ disk.mode = "ok"
            /\ ~read_exceeds(Size(bounded_read(disk)))
            /\ Contains(bounded_read(disk), NUL))
        => OmittedStep("Binary detected")]_vars

\* The candidates that were Included, in the order of discovery.
RECURSIVE IncludedInOrder(_, _)
IncludedInOrder(files, inc) ==
    IF files = <<>> THEN <<>>
    ELSE (IF Head(files) \in inc THEN <<rel_path_str(Head(files))>> ELSE <<>>)
         \o IncludedInOrder(Tail(files), inc)

Headings(body) == [i \in DOMAIN body |-> body[i].heading]

IncludedSet == {top_offenders[i].path : i \in DOMAIN top_offenders}

\* C6: the Included entries appear in the document in discovery order, as
\* table of contents and as sections; the sort and truncation of the
\* largest files at finalize changes neither.
C6_DocumentOrder ==
    /\ pc \in {"loop", "stat", "read"} =>
          /\ Headings(body_writer) = IncludedInOrder(candidates, IncludedSet)
          /\ toc_lines(included_paths) = Headings(body_writer)
    /\ pc = "done" =>
          /\ doc.toc = IncludedInOrder(candidates, IncludedSet)
          /\ Headings(doc.body) = doc.toc

\* A finished document of two sections whose larger file comes second.
C6_Witness ==
    /\ pc = "done"
    /\ Len(doc.toc) = 2
    /\ doc.top_offenders[1].path = candidates[2]
    /\ doc.toc[1] = rel_path_str(candidates[1])

\* Sum of the lengths of the runs i..j of t.
RECURSIVE RunsSize(_, _, _)
RunsSize(t, i, j) == IF i > j THEN 0 ELSE t[i].n + RunsSize(t, i + 1, j)

\* The length of the longest run of consecutive backticks of t.
LongestBacktickRun(t) ==
    LET AllTicks(i, j) == i <= j /\ \A k \in i..j : t[k].c = BACKTICK
        spans == {ij \in (DOMAIN t) \X (DOMAIN t) : AllTicks(ij[1], ij[2])}
        ticks == {RunsSize(t, ij[1], ij[2]) : ij \in spans}
    IN  IF ticks = {} THEN 0
        ELSE CHOOSE m \in ticks : \A o \in ticks : o <= m

\* C9: the opening and the closing fence of a section are the same run of
\* exactly max(3, k + 1) backticks, k the longest run of backticks of the
\* content.
C9_FenceSizing ==
    \A i \in DOMAIN body_writer :
        LET k == LongestBacktickRun(body_writer[i].content) IN
            /\ body_writer[i].open = <<Run(BACKTICK, IF k + 1 > 3 THEN k + 1 ELSE 3)>>
            /\ body_writer[i].close = body_writer[i].open

\* A content with 13 backticks in a row, a run of 10 meeting a run of 3,
\* fenced by 14.
C9_Witness ==
    /\ body_writer # <<>>
    /\ LongestBacktickRun(body_writer[1].content) = 13
    /\ body_writer[1].open = <<Run(BACKTICK, 14)>>
    /\ body_writer[1].close = <<Run(BACKTICK, 14)>>

Range(seq) == {seq[i] : i \in DOMAIN seq}

\* Discovery has returned, in the first run or in the next.
Found == pc \in {"found", "found_again"}

RelativePaths(files) == [i \in DOMAIN files |-> rel_path_str(files[i])]

\* C8: for a fixed tree and configuration, two successive runs give the
\* same ordered list of relative paths, in whatever order the walker
\* yields the entries.
C8_Deterministic ==
    pc = "found_again" => RelativePaths(candidates) = RelativePaths(prev_files)

\* The regular files of the tree that the walker yields and whose name
\* starts with .env, whatever the case of its letters.
WalkedSecretLike ==
    {e \in tree :
        /\ e.kind = "file"
        /\ \E w \in walk_root(tree) : \E i \in DOMAIN w : w[i] = Ok(e)
        /\ starts_with(to_lowercase(file_name(e.path)), <<".", "e", "n", "v">>)}

\* The name is one of the allow-listed variants.
AllowListed(name) ==
    \/ \E marker \in {<<".", "e", "x", "a", "m", "p", "l", "e">>,
                      <<".", "s", "a", "m", "p", "l", "e">>,
                      <<".", "t", "e", "m", "p", "l", "a", "t", "e">>} :
          ends_with(to_lowercase(name), marker)
    \/ to_lowercase(name) = <<".", "e", "n", "v", "r", "c">>

\* Another rule of the configuration excludes the file: its name is in
\* exclude_file or its extension in exclude_ext, both without regard to case.
ExcludedByUserLists(e) ==
    \/ \E f \in cfg.exclude_file :
          to_lowercase(f) = to_lowercase(file_name(e.path))
    \/ /\ has_extension(e.path)
       /\ \E x \in cfg.exclude_ext :
             to_lowercase(x) = to_lowercase(extension(e.path))

\* C10 as written: a file whose name starts with .env is never a
\* candidate, unless the name is allow-listed, in which case it is one.
C10_SecretPrefixAsWritten ==
    Found =>
        \A e \in WalkedSecretLike :
            e.path \in Range(candidates) <=> AllowListed(file_name(e.path))

\* C10: a file whose name starts with .env is never a candidate, unless
\* the name is allow-listed; an allow-listed file is a candidate exactly
\* when no user list (exclude_file, exclude_ext) excludes it.
C10_SecretPrefix ==
    Found =>
        \A e \in WalkedSecretLike :
            e.path \in Range(candidates) <=>
                (AllowListed(file_name(e.path)) /\ ~ExcludedByUserLists(e))

\* .env is left out and .env.example and .envrc are candidates.
C10_Witness ==
    /\ Found
    /\ {e.path : e \in WalkedSecretLike} =
          {<<DOT_ENV>>, <<NAME.env_example>>, <<DOT_ENVRC>>}
    /\ Range(candidates) = {<<NAME.env_example>>, <<DOT_ENVRC>>}

\* The directory names that are excluded whatever the configuration says.
SensitiveDirs ==
    {<<".", "g", "i", "t">>, <<".", "s", "s", "h">>, <<".", "a", "w", "s">>,
     <<".", "g", "n", "u", "p", "g">>, <<".", "k", "u", "b", "e">>,
     <<".", "c", "a", "r", "g", "o">>, <<".", "r", "u", "s", "t", "u", "p">>}

\* The name is, without regard to case, a configured excluded directory or
\* a sensitive one.
ExcludedDirName(name) ==
    \/ \E d \in cfg.exclude_dir : to_lowercase(d) = to_lowercase(name)
    \/ to_lowercase(name) \in SensitiveDirs

\* The entry lies under a directory below the root with such a name.
UnderExcludedDir(e) ==
    \E k \in 1..Len(e.path) - 1 : ExcludedDirName(e.path[k])

\* C11: no file under a directory below the root whose name is a configured
\* excluded directory or one of the fixed sensitive names, without regard
\* to case, is a candidate, also when the configured list is empty; the
\* root is never pruned, whatever its own name: a plain file in it is a
\* candidate.
C11_SensitiveDirsPruned ==
    Found =>
        /\ \A e \in tree : UnderExcludedDir(e) => e.path \notin Range(candidates)
        /\ \A e \in tree :
              (e.kind = "file" /\ e.path = <<NAME.a_txt>>) =>
                  e.path \in Range(candidates)

\* No configured directory, a root named .git, a directory .Git with a file
\* and a plain file beside it: the plain file is the only candidate.
C11_Witness ==
    /\ Found
    /\ cfg.exclude_dir = {}
    /\ ExcludedDirName(args.root)
    /\ \E e \in tree : UnderExcludedDir(e) /\ e.kind = "file"
    /\ candidates = <<<<NAME.a_txt>>>>
\* The file a candidate path is read from: the target of a link, else the
\* path itself.
Resolved(path) ==
    IF \E e \in tree : e.path = path /\ e.kind = "symlink"
    THEN (CHOOSE e \in tree : e.path = path /\ e.kind = "symlink").target
    ELSE path

\* C12: a symbolic link is never a candidate, and the file it points to is
\* a candidate once, under its own path: no second candidate is read from
\* the same file through the link.
C12_SymlinkNeverCandidate ==
    Found =>
        /\ \A e \in tree : e.kind = "symlink" => e.path \notin Range(candidates)
        /\ \A e \in tree :
              (e.kind = "symlink" /\ Entry(e.target, "file") \in tree) =>
                  Cardinality({i \in DOMAIN candidates :
                                 Resolved(candidates[i]) = e.target}) = 1

C12_Witness ==
    /\ Found
    /\ \E e \in tree : e.kind = "symlink" /\ Entry(e.target, "file") \in tree
    /\ candidates = <<<<NAME.a_txt>>>>

\* The name is one the tool gives its own files: merged_, eight digits, _,
\* six digits, .md; or ctxsnap.toml.
SelfOutputName(name) ==
    \/ /\ starts_with(name, <<"m", "e", "r", "g", "e", "d", "_">>)
       /\ ends_with(name, <<".", "m", "d">>)
       /\ Len(name) = 7 + 8 + 1 + 6 + 3
       /\ name[7 + 8 + 1] = "_"
       /\ \A i \in (8..15) \cup (17..22) :
             name[i] \in {"0", "1", "2", "3", "4", "5", "6", "7", "8", "9"}
    \/ name = CTXSNAP_TOML

\* C14: a file named as the tool's own output (merged_YYYYMMDD_HHMMSS.md)
\* or as its configuration file (ctxsnap.toml) is never a candidate,
\* whatever the configuration.
C14_SelfOutputExcluded ==
    Found => \A i \in DOMAIN candidates : ~SelfOutputName(file_name(candidates[i]))

\* Both files are in a root walked with no exclusion configured, and only
\* the third file is a candidate.
C14_Witness ==
    /\ Found
    /\ cfg.exclude_file = {} /\ cfg.exclude_ext = {} /\ ~cfg.use_gitignore
    /\ {Entry(<<NAME.merged>>, "file"), Entry(<<CTXSNAP_TOML>>, "file")}
           \subseteq tree
    /\ candidates = <<<<NAME.z_txt>>>>

\* The lock files of the tree: files with one of the fixed names.
LockFilesOf(t) ==
    {e \in t : e.kind = "file" /\ file_name(e.path) \in
        {NAME.cargo_lock,
         <<"p", "a", "c", "k", "a", "g", "e", "-", "l", "o", "c", "k", ".",
           "j", "s", "o", "n">>,
         <<"y", "a", "r", "n", ".", "l", "o", "c", "k">>,
         <<"p", "n", "p", "m", "-", "l", "o", "c", "k", ".", "y", "a", "m", "l">>,
         <<"G", "e", "m", "f", "i", "l", "e", ".", "l", "o", "c", "k">>,
         <<"p", "o", "e", "t", "r", "y", ".", "l", "o", "c", "k">>}}

\* C15: with include_lockfiles off no lock file is a candidate; with it on
\* a lock file is a candidate unless a user list excludes it.
C15_LockfileToggle ==
    Found =>
        \A e \in LockFilesOf(tree) :
            e.path \in Range(candidates) <=>
                (cfg.include_lockfiles /\ ~ExcludedByUserLists(e))

\* Lock files are included and Cargo.lock is a candidate.
C15_Witness ==
    /\ Found
    /\ cfg.include_lockfiles
    /\ candidates = <<<<NAME.cargo_lock>>, <<NAME.a_txt>>>>

\* C13: finalization without --force where the output file exists fails
\* with 'Output file exists' and leaves the file as it was; with --force
\* it succeeds and the file holds the snapshot; a dry run leaves the path
\* as it was, file or no file.
C13_FinalizeStep ==
    (pc = "loop" /\ pc' \in {"done", "failed"}) =>
        /\ (~args.dry_run /\ dest = "existing" /\ ~args.force) =>
              /\ pc' = "failed"
              /\ doc'.output = "Output file exists"
              /\ ~doc'.written
              /\ dest' = "existing"
        /\ (~args.dry_run /\ dest = "existing" /\ args.force) =>
              /\ pc' = "done"
              /\ doc'.output = "file"
              /\ dest' = "snapshot"
        /\ args.dry_run => (pc' = "done" /\ dest' = dest)

C13_DestinationSafety == [][C13_FinalizeStep]_vars

\* A run without --force has failed on the file that exists.
C13_Witness ==
    /\ pc = "failed"
    /\ ~args.force
    /\ dest = "existing"
    /\ doc.output = "Output file exists"
    /\ included_paths # <<>>

\* The file was read as far as decoding and UTF-8 decoding had errors.
FallbackTaken ==
    /\ pc = "extracted"
    /\ decode_utf8(disk.bytes).had_errors
    /\ omitted # <<>> => Last(omitted).reason = "Too many control chars"

\* C16: a file that passes every gate and whose bytes are not UTF-8 is
\* Included with its bytes decoded as Windows-1252 (every byte has a
\* character there), and a file that is a UTF-8 byte order mark followed
\* by UTF-8 text is Included, with that text.
C16_EncodingFallback ==
    pc = "extracted" =>
        /\ (~utf8_decode(disk.bytes).ok /\ omitted = <<>>) =>
              /\ included_paths = candidates
              /\ Last(body_writer).content = windows_1252_decode(disk.bytes)
        /\ (has_utf8_bom(disk.bytes) /\ utf8_decode(disk.bytes).ok
                /\ control_chars(utf8_decode(disk.bytes).text) = 0) =>
              /\ included_paths = candidates
              /\ Last(body_writer).content
                    = utf8_decode(Drop(disk.bytes, 3)).text

\* C20: when UTF-8 decoding has errors the file is Omitted for its control
\* characters exactly when they are at least 1 in 100 of the characters
\* of the fallback text, and Included otherwise.
C20_FallbackControlGate ==
    FallbackTaken =>
        LET text == decode("windows-1252", disk.bytes).text IN
            IF control_chars(text) * 100 >= Size(text)
            THEN omitted # <<>> /\ included_paths = <<>>
            ELSE omitted = <<>> /\ included_paths = candidates

\* The characters of a text, one by one.
RECURSIVE Flat(_)
Flat(t) ==
    IF t = <<>> THEN <<>>
    ELSE [i \in 1..Head(t).n |-> Head(t).c] \o Flat(Tail(t))

\* The text of the file that was read and the content of its section.
StripIn == Flat(disk.bytes)
StripOut == Flat(Last(body_writer).content)
StripExt == extension_or(Head(candidates), <<>>)

\* s without what starts with token and ends before the end of its line.
RECURSIVE WithoutLineComments(_, _)
WithoutLineComments(s, token) ==
    IF s = <<>> THEN <<>>
    ELSE IF Len(s) >= Len(token) /\ SubSeq(s, 1, Len(token)) = token THEN
        IF \E i \in DOMAIN s : s[i] = LF
        THEN LET eol == CHOOSE i \in DOMAIN s :
                            s[i] = LF /\ \A j \in 1..i - 1 : s[j] # LF
             IN  WithoutLineComments(SubSeq(s, eol, Len(s)), token)
        ELSE <<>>
    ELSE <<Head(s)>> \o WithoutLineComments(Tail(s), token)

\* No quote and no block comment in the text: all its comments are line
\* comments.
LineCommentsOnly(s) ==
    \A i \in DOMAIN s : s[i] \notin {QUOTE, APOSTROPHE, STAR}

\* C17: the extension alone chooses the style.  In a C-like file (.rs)
\* what starts with // is removed up to the end of its line and a # and
\* what follows it stay; in a hash-style file (.py) what starts with # is
\* removed and // stays; a file with no mapped extension is unchanged.
C17_StylePerLanguage ==
    pc = "stripped" =>
        /\ included_paths = candidates
        /\ (StripExt = <<"r", "s">> /\ LineCommentsOnly(StripIn)) =>
              StripOut = WithoutLineComments(StripIn, <<SLASH, SLASH>>)
        /\ (StripExt = <<"p", "y">> /\ LineCommentsOnly(StripIn)) =>
              StripOut = WithoutLineComments(StripIn, <<HASH>>)
        /\ (StripExt = <<"S", "Q", "L">> /\ LineCommentsOnly(StripIn)) =>
              StripOut = WithoutLineComments(StripIn, <<DASH, DASH>>)
        /\ StripExt = <<>> => StripOut = StripIn

\* A .rs file of the lines '#' and '//#' keeps the first line only.
C17_Witness ==
    /\ pc = "stripped"
    /\ StripExt = <<"r", "s">>
    /\ StripIn = <<HASH, LF, SLASH, SLASH, HASH>>
    /\ StripOut = <<HASH, LF>>

\* s is a string literal: a quote, then characters other than the quote
\* and the backslash, or a backslash and the character it escapes, then
\* the same quote.
RECURSIVE LiteralBody(_, _)
LiteralBody(s, q) ==
    \/ s = <<>>
    \/ /\ s # <<>>
       /\ s[1] = BACKSLASH
       /\ Len(s) >= 2
       /\ LiteralBody(SubSeq(s, 3, Len(s)), q)
    \/ /\ s # <<>>
       /\ s[1] \notin {q, BACKSLASH}
       /\ LiteralBody(Tail(s), q)

StringLiteral(s) ==
    /\ Len(s) >= 2
    /\ s[1] \in {QUOTE, APOSTROPHE}
    /\ s[Len(s)] = s[1]
    /\ LiteralBody(SubSeq(s, 2, Len(s) - 1), s[1])

\* s is t with some of its characters left out.
RECURSIVE Subsequence(_, _)
Subsequence(s, t) ==
    IF s = <<>> THEN TRUE
    ELSE IF t = <<>> THEN FALSE
    ELSE IF Head(s) = Head(t) THEN Subsequence(Tail(s), Tail(t))
    ELSE Subsequence(s, Tail(t))

\* C18: in a C-like, hash or dash style file nothing inside a string
\* literal is removed, whatever it looks like: a literal the text starts
\* with is in the section whole; and what is in the section is the text
\* with some of its characters left out, in their order.
C18_StringAware ==
    (pc = "stripped" /\ StripExt # <<>>) =>
        /\ included_paths = candidates
        /\ Subsequence(StripOut, StripIn)
        /\ \A k \in DOMAIN StripIn :
              StringLiteral(SubSeq(StripIn, 1, k)) =>
                  /\ Len(StripOut) >= k
                  /\ SubSeq(StripOut, 1, k) = SubSeq(StripIn, 1, k)

\* The walker comes to the entry: every directory above it is yielded
\* and can be read, and the entry is yielded.
Walked(e) ==
    \A k \in 1..Len(e.path) :
        \E d \in tree :
            /\ d.path = SubSeq(e.path, 1, k)
            /\ yielded(d)
            /\ k < Len(e.path) => ~d.denied

\* C19: an error of the walker is never fatal: the run goes on to its end,
\* the errors are those of the directories that cannot be read, every
\* file the walker comes to and no rule excludes is a candidate, and the
\* document has the section of the discovery errors, its heading and one
\* line for each error, exactly when there is an error.
C19_DiscoveryErrors ==
    /\ pc \notin {"failed", "aborted"}
    /\ pc # "discover" =>
          /\ Range(errors)
                = {d.path : d \in {e \in tree : e.denied /\ Walked(e)}}
          /\ Range(candidates)
                = {f.path : f \in {e \in tree : Walked(e) /\ pushed(e)}}
    /\ pc = "done" =>
          /\ doc.errors # <<>> <=> errors # <<>>
          /\ errors # <<>> =>
                /\ doc.errors[1].line = "## Discovery Errors"
                /\ [i \in DOMAIN errors |-> doc.errors[i + 1].error] = errors

\* A directory could not be read and the files beside it are candidates.
C19_Witness ==
    /\ Found
    /\ errors = <<<<<<"u">>>>>>
    /\ candidates = <<<<NAME.a_txt>>, <<NAME.z_txt>>>>

\* C21: the sample is the first min(8 KiB, bytes read) bytes; a file that
\* was read is Omitted as binary exactly when its sample holds a zero byte
\* or the control characters of the sample, other than newline, carriage
\* return and tab, are at least 2 in 100 of its characters, whether or
\* not the sample is UTF-8.
C21_BinarySniff ==
    pc = "extracted" =>
        LET sample == Take(disk.bytes, Min(SAMPLE_SIZE, Size(disk.bytes)))
            s == utf8_decode(sample).text
        IN  (Contains(sample, NUL) \/ control_chars(s) * 100 >= 2 * Size(s))
            <=> (omitted # <<>> /\ Last(omitted).reason = "Binary detected")

\* One step that hands an Included result to the assembler: from the read,
\* or from the zero-size path, where nothing is read.
C22_IncludedStep ==
    Len(top_offenders') = Len(top_offenders) + 1 =>
        LET size == Last(top_offenders').size IN
            /\ size = (IF pc = "read" THEN Size(bounded_read(disk)) ELSE 0)
            /\ used' = saturating_add(used, size)
            /\ pc' # "aborted" => total_bytes' = total_bytes + size

\* C22: the size of every Included result is the number of bytes read from
\* the file, whatever size the gate or the extractor saw in the metadata
\* before, and the running total of the gate grows by exactly that size
\* (saturating).
C22_SizeIsBytesRead == [][C22_IncludedStep]_vars

\* A file that grew after the gate and the extractor saw its size: it was
\* Included with the bytes read, which the budget alone would not admit.
C22_Witness ==
    /\ pc = "loop"
    /\ Len(included_paths) = 1
    /\ omitted = <<>>
    /\ used = MiB + 1
    /\ used > max_total_bytes
    /\ total_bytes = used

\* One step of the extractor that hands an Included result made from the
\* bytes read to the assembler.
C23_IncludedStep ==
    (pc = "read" /\ Len(body_writer') = Len(body_writer) + 1) =>
        LET full_buffer == bounded_read(disk)
            dec == decode_utf8(full_buffer)
            decoded == IF dec.had_errors
                       THEN decode("windows-1252", full_buffer).text
                       ELSE dec.text
        IN  Last(body_writer').content # decoded =>
                cfg.remove_comments /\ Size(full_buffer) < 1048576

\* C23: comment stripping changes the text only when remove_comments is on
\* and fewer than 1 MiB (1,048,576 bytes) were read; with the toggle off or
\* 1 MiB or more read, the Included content is the decoded text.
C23_StripGate == [][C23_IncludedStep]_vars

\* remove_comments is on and a.rs, exactly 1 MiB that is one comment, is
\* Included whole.
C23_Witness ==
    /\ cfg.remove_comments
    /\ included_paths = <<<<<<"a", ".", "r", "s">>>>>>
    /\ body_writer[1].content = CONTENT.text_mib
    /\ strip_comments(CONTENT.text_mib, <<"r", "s">>) # CONTENT.text_mib
    /\ total_bytes = 1048576

\* One step of the extractor whose metadata call finds a file of length 0,
\* and the step of finalize.
C24_ZeroSizeStep ==
    /\ (pc = "stat" /\ pc' # "stat" /\ disk.exists /\ Size(disk.bytes) = 0
            /\ pc' # "aborted") =>
          /\ pc' = "loop"
          /\ todo' = Tail(todo)
          /\ omitted' = omitted
          /\ included_paths' = Append(included_paths, Head(todo))
          /\ top_offenders'
                = Append(top_offenders, [path |-> Head(todo), size |-> 0])
          /\ Len(body_writer') = Len(body_writer) + 1
          /\ Last(body_writer').heading = rel_path_str(Head(todo))
          /\ Last(body_writer').content = <<>>
          /\ total_bytes' = total_bytes
          /\ used' = used
    /\ (pc = "loop" /\ pc' = "done") => doc'.body = body_writer

C25_OmittedStep ==
    /\ Len(omitted') = Len(omitted) + 1 =>
          /\ SubSeq(omitted', 1, Len(omitted)) = omitted
          /\ Last(omitted').path = Head(todo)
          /\ used' = used
          /\ total_bytes' = total_bytes
          /\ total_lines' = total_lines
          /\ stats_by_extension' = stats_by_extension
          /\ top_offenders' = top_offenders
          /\ included_paths' = included_paths
          /\ body_writer' = body_writer
    /\ (pc = "loop" /\ todo # <<>> /\ omitted # <<>>
            /\ Last(omitted).reason = "Budget exceeded"
            /\ Len(omitted') = Len(omitted) + 1
            /\ Last(omitted').reason = "Budget exceeded") =>
          saturating_add(used, Last(omitted').size) > max_total_bytes

\* C25: an Omitted result only adds one entry to the omission list: the
\* running total of the gate, total bytes and lines, the statistics by
\* extension, the list of the largest files, the included paths and the
\* body buffer stay as they are; so a candidate that follows one rejected
\* for the budget is rejected for the budget only if the running total
\* plus its own size exceeds the budget.
C25_OmittedChangesNothing == [][C25_OmittedStep]_vars

\* The first candidate was rejected for the budget, the second Included.
C25_Witness ==
    /\ pc = "loop"
    /\ todo = <<>>
    /\ Len(candidates) = 2
    /\ Len(omitted) = 1
    /\ omitted[1].path = candidates[1]
    /\ omitted[1].reason = "Budget exceeded"
    /\ included_paths = <<candidates[2]>>
    /\ used > 0
    /\ used = total_bytes

\* C26: after each candidate the running total of the gate, total_bytes,
\* the sum of size over the Included results and the sum of the bytes by
\* extension are equal, and the file counts by extension add up to the
\* number of included paths; in the finished document that number is the
\* length of the table of contents and the 'Files included' figure, and
\* the list of the largest files has at most 5 entries, none larger than
\* the one before it.
C26_StatisticsConsistent ==
    LET RECURSIVE Sum(_, _)
        Sum(stats, field) ==
            IF stats = {} THEN 0
            ELSE LET e == CHOOSE x \in stats : TRUE
                 IN  e[field] + Sum(stats \ {e}, field)
    IN  /\ pc # "aborted" =>
              /\ used = total_bytes
              /\ total_bytes = included_sum
              /\ Sum(stats_by_extension, "bytes") = total_bytes
              /\ Sum(stats_by_extension, "count") = Len(included_paths)
        /\ pc = "done" =>
              /\ doc.files_included = Len(included_paths)
              /\ Len(doc.toc) = Len(included_paths)
              /\ doc.total_bytes = used
              /\ Len(doc.top_offenders) <= 5
              /\ \A i \in 1..Len(doc.top_offenders) - 1 :
                    doc.top_offenders[i].size >= doc.top_offenders[i + 1].size

\* Six files were Included, with sizes 0, 5 and 8 among them: five are
\* left in the list of the largest files.
C26_Witness ==
    /\ pc = "done"
    /\ doc.files_included = 6
    /\ Len(doc.top_offenders) = 5
    /\ doc.top_offenders[1].size = 8
    /\ doc.top_offenders[5].size = 0
    /\ {e.ext : e \in stats_by_extension} = {<<"p", "y">>, <<"r", "s">>, NO_EXT}

\* C27: two runs on the same tree whose configurations differ only in
\* remove_comments have, after the same number of candidates, the same
\* Included and Omitted results with the same sizes and reasons, the same
\* running total and the same total of included bytes.
C27_StrippingDoesNotInfluence ==
    (pc = "loop" /\ Len(todo) = Len(twin.run.todo)) =>
        /\ cfg.remove_comments # twin.run.cfg.remove_comments
        /\ [cfg EXCEPT !.remove_comments = FALSE]
              = [twin.run.cfg EXCEPT !.remove_comments = FALSE]
        /\ n_results = twin.run.n_results
        /\ omitted = twin.run.omitted
        /\ included_paths = twin.run.included_paths
        /\ top_offenders = twin.run.top_offenders
        /\ used = twin.run.used
        /\ total_bytes = twin.run.total_bytes
        /\ stats_by_extension = twin.run.stats_by_extension

\* Both runs are over: a.rs, one comment of 1 MiB - 1 bytes, is Included
\* with different content in the two runs, and the next candidate is
\* rejected for the budget in both.
C27_Witness ==
    /\ pc = "loop"
    /\ todo = <<>>
    /\ twin.run.todo = <<>>
    /\ Len(candidates) = 2
    /\ used = MiB - 1
    /\ body_writer # twin.run.body_writer
    /\ {body_writer[1].content, twin.run.body_writer[1].content}
          = {<<>>, twin.files[1]}
    /\ Len(omitted) = 1
    /\ omitted[1].reason = "Budget exceeded"
    /\ omitted[1].size = 5

====
